---------------------------- MODULE Spec2Model ----------------------------
(***************************************************************************)
(* Model of the simulated spot exchange of the Backtester repository       *)
(* (src/src/_binance.py, class BinanceBroker, with the helpers of          *)
(* src/src/helper_funcs.py).                                               *)
(*                                                                         *)
(* Numbers.  The program computes with Python numbers.  Quantities are     *)
(* modelled as integers, prices as integers counted in 1/PriceScale, so    *)
(* that a price may be fractional (with PriceScale = 2: 3 is 1.5), and     *)
(* balances in the same unit as prices, so that quantity * price is exact. *)
(* A commission is value * rate with the rate in 1/RateDen, and is kept    *)
(* in 1/(PriceScale * RateDen).  Arithmetic is exact (no float rounding).  *)
(*                                                                         *)
(* Errors.  A Python exception leaves every assignment made before it in   *)
(* place.  Each handler is an operator from the broker state (a record of  *)
(* the broker's fields) to the broker state after the call, field raised   *)
(* naming the exception ("none" on a normal return).                       *)
(*                                                                         *)
(* Callbacks.  An order's completion callback is the strategy's; as in     *)
(* src/test_classes/test_strategy.py (executed) it does not call back into *)
(* the broker.  The execution record it receives is appended to the        *)
(* history variable executions.                                            *)
(***************************************************************************)
EXTENDS Integers, Sequences, FiniteSets, TLC

(***************************************************************************)
(* Bounds of the model.                                                    *)
(***************************************************************************)
\* prices are counted in 1/PriceScale
PriceScale == 2
\* accounts registered through get_client
MaxClients == 1
\* order ids issued (create_* calls, failed ones included)
MaxOrders == 2
\* order ids issued in the strategy scenario (SpecStrategy)
MaxStrategyOrders == 1
\* largest price (limit or reference), in 1/PriceScale
MaxPrice == 3
\* largest order quantity
MaxQty == 2
\* largest total an add_account_balance may reach, in 1/PriceScale
MaxBalance == 4

(***************************************************************************)
(* Exchange constants.                                                     *)
(***************************************************************************)
\* Enums.SIDE_BID, Enums.SIDE_ASK, Enums.TYPE_MKT, Enums.TYPE_LMT
SIDE_BID == 0
SIDE_ASK == 1
TYPE_MKT == 2
TYPE_LMT == 3

\* BinanceBroker.ASSETS, SPOT_SYMBOLS
ASSETS == {"USDT", "BTC", "ADA", "AUD"}
SPOT_SYMBOLS == {"BTCUSDT", "ADAAUD"}

\* BinanceBroker.COMMISSIONS, rates in 1/RateDen (0.001 = 1/1000)
RateDen == 1000
COMMISSIONS == [maker |-> 1, taker |-> 1]

\* the characters of a ticker (TLC cannot slice a string)
Letters(s) ==
    CASE s = "USDT"    -> <<"U", "S", "D", "T">>
      [] s = "BTC"     -> <<"B", "T", "C">>
      [] s = "ADA"     -> <<"A", "D", "A">>
      [] s = "AUD"     -> <<"A", "U", "D">>
      [] s = "BTCUSDT" -> <<"B", "T", "C", "U", "S", "D", "T">>
      [] s = "ADAAUD"  -> <<"A", "D", "A", "A", "U", "D">>
      [] s = "BTCEUR"  -> <<"B", "T", "C", "E", "U", "R">>
      [] OTHER         -> <<>>

(***************************************************************************)
(* Inputs the environment (strategy, backtester) may pass.                 *)
(***************************************************************************)
\* client ids: the registered ones and one that never is
ClientInputs == 0 .. MaxClients
\* assets credited: those of BTCUSDT and one that is not listed
AssetInputs == {"USDT", "BTC", "EUR"}
\* symbols of orders: BTCUSDT and one that cannot be split
OrderSymbols == {"BTCUSDT", "BTCEUR"}
\* symbols of trade ticks
TickSymbols == SPOT_SYMBOLS
SideInputs == {SIDE_BID, SIDE_ASK}
\* prices from 1.0 up
PriceInputs == PriceScale .. MaxPrice
QtyInputs == 1 .. MaxQty
\* prices of the trade ticks of a symbol (one price for the symbol that
\* has no orders)
TickPrices(symbol) == IF symbol = "BTCUSDT" THEN PriceInputs ELSE {MaxPrice}
AmountInputs == {-1, MaxBalance}

(***************************************************************************)
(* helper_funcs.py                                                         *)
(***************************************************************************)
Min(S) == CHOOSE x \in S : \A y \in S : x <= y

Max(S) == CHOOSE x \in S : \A y \in S : x >= y

\* the split points split_symbol's loop accepts: i in range(len(symbol))
SplitPoints(symbol, assets) ==
    {i \in 0 .. Len(Letters(symbol)) - 1 :
        /\ \E a \in assets : Letters(a) = SubSeq(Letters(symbol), 1, i)
        /\ \E b \in assets :
              Letters(b) = SubSeq(Letters(symbol), i + 1, Len(Letters(symbol)))}

CanSplit(symbol, assets) == SplitPoints(symbol, assets) # {}

\* split_symbol: the pair (symbol[:i], symbol[i:]) of the first i accepted;
\* a 2-tuple, assets[0] is <<...>>[1] here and assets[1] is <<...>>[2]
split_symbol(symbol, assets) ==
    LET i == Min(SplitPoints(symbol, assets))
        w == Letters(symbol)
    IN  << CHOOSE a \in assets : Letters(a) = SubSeq(w, 1, i),
           CHOOSE b \in assets : Letters(b) = SubSeq(w, i + 1, Len(w)) >>

\* Python's int() of a non-negative price: truncation to a whole number,
\* expressed again in 1/PriceScale
IntOf(key) == (key \div PriceScale) * PriceScale

\* get_keys_above / get_keys_below on a dict kept as the sequence of its
\* items in insertion order: the items whose int(key) is >= min_ / <= max_
RECURSIVE SelectItems(_, _, _)
SelectItems(d, ref, above) ==
    IF d = <<>> THEN <<>>
    ELSE LET keep == IF above THEN IntOf(Head(d).key) >= ref
                              ELSE IntOf(Head(d).key) <= ref
         IN  (IF keep THEN <<Head(d)>> ELSE <<>>)
                 \o SelectItems(Tail(d), ref, above)

get_keys_above(d, min_) == SelectItems(d, min_, TRUE)

get_keys_below(d, max_) == SelectItems(d, max_, FALSE)

(***************************************************************************)
(* Dicts whose iteration order matters (bids[symbol], asks[symbol]) are    *)
(* sequences of items [key, val] in insertion order.                       *)
(***************************************************************************)
Keys(d) == {d[i].key : i \in 1 .. Len(d)}

IndexOf(d, k) == CHOOSE i \in 1 .. Len(d) : d[i].key = k

Get(d, k) == d[IndexOf(d, k)].val

\* d[k] = v
Put(d, k, v) ==
    IF k \in Keys(d) THEN [d EXCEPT ![IndexOf(d, k)].val = v]
    ELSE Append(d, [key |-> k, val |-> v])

\* a dict whose order is never observed: a function on its keys
SetKey(f, k, v) == [x \in DOMAIN f \cup {k} |-> IF x = k THEN v ELSE f[x]]

DropKey(f, k) == [x \in DOMAIN f \ {k} |-> f[x]]

\* list.pop(i), i counted from 1
PopAt(s, i) == SubSeq(s, 1, i - 1) \o SubSeq(s, i + 1, Len(s))

VARIABLES
    clientID,        \* BinanceBroker.clientID: next client id
    orderID,         \* BinanceBroker.orderID: next order id
    asset_balances,  \* clientID -> asset -> [total, locked]
    commissions,     \* clientID -> asset -> commission paid
    asks,            \* symbol -> items (price, list of orders)
    bids,            \* symbol -> items (price, list of orders)
    mkt_orders,      \* list of pending market orders
    orders,          \* orderID -> order
    trade_data,      \* trade_data['spot']: symbol -> last trade price
    kline_streaming_symbols,  \* market -> symbol -> interval -> list of
                              \* sockets (clientID, callback)
    klines,          \* market -> symbol -> interval -> last bar
    klines_updated,  \* market -> items (symbol, list of intervals)
    mark_price,      \* symbol -> last mark price
    funding_rates,   \* symbol -> funding rate
    mark_price_sockets,  \* symbol -> list of sockets (clientID, callback)
    mark_price_updated,  \* list of symbols
    logged_data,     \* Logger.logged_data: key -> rows of the frame
    delivered,       \* history: the callbacks the last call invoked,
                     \* with the key served and the data each received
    executions,      \* history: execution records handed to callbacks
    last,            \* history: the last call: op, exception raised, and
                     \* the arguments of a call that returned normally
    backtester,      \* the Backtester: its inputs, self.time, the counters
                     \* of run_backtest, where it stands, the calls it made
    account,         \* a MarginAccountUSDM and the outcome of the last call
    futures          \* a BinanceFuturesBroker and the outcome of the last call

vars == <<clientID, orderID, asset_balances, commissions, asks, bids,
          mkt_orders, orders, trade_data, kline_streaming_symbols, klines,
          klines_updated, mark_price, funding_rates, mark_price_sockets,
          mark_price_updated, logged_data, delivered, executions, last,
          backtester, account, futures>>

\* the empty dict
EmptyDict == [x \in {} |-> 0]

\* the broker's fields as one record, raised = "none"
Broker ==
    [clientID |-> clientID, orderID |-> orderID,
     asset_balances |-> asset_balances, commissions |-> commissions,
     asks |-> asks, bids |-> bids, mkt_orders |-> mkt_orders,
     orders |-> orders, trade_data |-> trade_data,
     kline_streaming_symbols |-> kline_streaming_symbols,
     klines |-> klines, klines_updated |-> klines_updated,
     mark_price |-> mark_price, funding_rates |-> funding_rates,
     mark_price_sockets |-> mark_price_sockets,
     mark_price_updated |-> mark_price_updated,
     logged_data |-> logged_data, delivered |-> <<>>,
     executions |-> executions, raised |-> "none", ret |-> -1]

Raise(b, e) == [b EXCEPT !.raised = e]

\* F applied to the value of e (e is evaluated once)
Let(e, F(_)) == CHOOSE r \in {F(x) : x \in {e}} : TRUE

\* one call after another: an exception raised by the first propagates,
\* what it had assigned stays
Then(b, Step(_)) ==
    Let(b, LAMBDA x : IF x.raised # "none" THEN x ELSE Step(x))


(***************************************************************************)
(* Order (class Order)                                                     *)
(***************************************************************************)
\* Python's None
None == <<>>

\* Order.__init__: a market order has locked_price, a limit order lmt_price
Order(oid, client, type_, side, symbol, quantity, price) ==
    IF type_ = TYPE_MKT
    THEN [orderID |-> oid, clientID |-> client, side |-> side,
          symbol |-> symbol, quantity |-> quantity, type_ |-> type_,
          locked_price |-> None]
    ELSE [orderID |-> oid, clientID |-> client, side |-> side,
          symbol |-> symbol, quantity |-> quantity, type_ |-> type_,
          lmt_price |-> price]

\* Order.get_value
get_value(order, price) ==
    IF order.type_ = TYPE_MKT THEN order.quantity * price
    ELSE order.quantity * order.lmt_price

\* Order.set_price
set_price(order, price) == [order EXCEPT !.locked_price = price]

\* a quantity of an asset, in the unit of the balances
Units(quantity) == quantity * PriceScale

(***************************************************************************)
(* Balance ledger                                                          *)
(***************************************************************************)
\* get_client: registers the next client id with empty balances
get_client(b) ==
    [b EXCEPT !.ret = b.clientID,
              !.clientID = @ + 1,
              !.asset_balances = SetKey(@, b.clientID, EmptyDict),
              !.commissions = SetKey(@, b.clientID, EmptyDict)]

\* get_assets_available
get_assets_available(b, client, asset) ==
    IF asset \notin ASSETS THEN Raise(b, "ValueError")
    ELSE IF client \notin DOMAIN b.asset_balances THEN Raise(b, "ValueError")
    ELSE IF asset \notin DOMAIN b.asset_balances[client]
         THEN Raise(b, "KeyError")
    ELSE [b EXCEPT !.ret = b.asset_balances[client][asset].total
                            - b.asset_balances[client][asset].locked]

change_total_asset_balance_Unchecked(b, client, asset, change) ==
    IF asset \notin ASSETS THEN Raise(b, "ValueError")
    ELSE IF client \notin DOMAIN b.asset_balances THEN Raise(b, "ValueError")
    ELSE IF asset \notin DOMAIN b.asset_balances[client]
         THEN Raise(b, "KeyError")
    ELSE [b EXCEPT !.asset_balances[client][asset].total = @ + change]

\* change_total_asset_balance; the entry [total, locked] is subscripted
\* without a check that the account holds the asset
change_total_asset_balance(b, client, asset, change) ==
    IF asset \notin ASSETS THEN Raise(b, "ValueError")
    ELSE IF client \notin DOMAIN b.asset_balances THEN Raise(b, "ValueError")
    ELSE IF asset \notin DOMAIN b.asset_balances[client]
         THEN Raise(b, "KeyError")
    ELSE IF change < 0 /\ b.asset_balances[client][asset].total + change < 0
         THEN Raise(b, "ValueError")
    ELSE [b EXCEPT !.asset_balances[client][asset].total = @ + change]

\* change_locked_asset_balance
change_locked_asset_balance(b, client, asset, change) ==
    IF asset \notin ASSETS THEN Raise(b, "ValueError")
    ELSE IF client \notin DOMAIN b.asset_balances THEN Raise(b, "ValueError")
    ELSE IF asset \notin DOMAIN b.asset_balances[client]
         THEN Raise(b, "KeyError")
    ELSE IF change < 0 /\ b.asset_balances[client][asset].locked + change < 0
         THEN Raise(b, "ValueError")
    ELSE [b EXCEPT !.asset_balances[client][asset].locked = @ + change]

\* add_account_balance
add_account_balance(b, client, asset, amount_added) ==
    IF asset \notin ASSETS THEN Raise(b, "ValueError")
    ELSE IF client \notin DOMAIN b.asset_balances THEN Raise(b, "ValueError")
    ELSE IF amount_added < 0 THEN Raise(b, "ValueError")
    ELSE LET held == asset \in DOMAIN b.asset_balances[client]
             entry == IF held THEN b.asset_balances[client][asset]
                      ELSE [total |-> 0, locked |-> 0]
         IN  [b EXCEPT !.asset_balances[client] =
                 SetKey(@, asset, [entry EXCEPT !.total = @ + amount_added])]

(***************************************************************************)
(* Market data                                                             *)
(***************************************************************************)
\* update_trade_data (mkt = 'spot'): the last trade of the symbol
update_trade_data(b, symbol, price) ==
    [b EXCEPT !.trade_data = SetKey(@, symbol, price)]

\* get_price: ret is the price; an unknown market, a symbol that is not
\* listed or has no trade yet raise
get_price(b, symbol, mkt) ==
    IF mkt = "spot"
    THEN IF symbol \notin SPOT_SYMBOLS THEN Raise(b, "ValueError")
         ELSE IF symbol \notin DOMAIN b.trade_data THEN Raise(b, "ValueError")
         ELSE [b EXCEPT !.ret = b.trade_data[symbol]]
    ELSE Raise(b, "ValueError")

(***************************************************************************)
(* Logger (class Logger): logged_data maps the key of a log to its frame,  *)
(* a sequence of rows.                                                     *)
(***************************************************************************)
\* create_log: the key gets an empty frame
create_log(b, key) == [b EXCEPT !.logged_data = SetKey(@, key, <<>>)]

\* DataFrame.append(data, ignore_index=True): a new frame with the row
\* added; the frame it is called on keeps its rows
DataFrame_append(frame, data) == Append(frame, data)

\* add_log_data: the frame that append returns is not stored
add_log_data(b, key, data) ==
    IF key \notin DOMAIN b.logged_data THEN Raise(b, "ValueError")
    ELSE Let(DataFrame_append(b.logged_data[key], data), LAMBDA frame : b)

\* try add_log_data, except ValueError: create_log, then add_log_data
LogRow(b, key, data) ==
    Let(add_log_data(b, key, data),
        LAMBDA r : IF r.raised = "ValueError"
                   THEN add_log_data(create_log(b, key), key, data)
                   ELSE r)

\* the number of rows of a log (none when the log does not exist)
RowsOf(logs, key) == IF key \in DOMAIN logs THEN Len(logs[key]) ELSE 0

(***************************************************************************)
(* Order receiving                                                         *)
(***************************************************************************)
\* the order appended to the list of its price level (a new level is
\* appended to the dict)
AddToLevel(book, symbol, order) ==
    LET d0 == IF symbol \in DOMAIN book THEN book[symbol] ELSE <<>>
        lst == IF order.lmt_price \in Keys(d0)
               THEN Append(Get(d0, order.lmt_price), order)
               ELSE <<order>>
    IN  SetKey(book, symbol, Put(d0, order.lmt_price, lst))

\* log_order: the row of an accepted order (its orderID is self.orderID,
\* the counter after the order took its id)
LogOrder(b, order) ==
    [orderID |-> b.orderID, clientID |-> order.clientID,
     type_ |-> order.type_, side |-> order.side, symbol |-> order.symbol,
     quantity |-> order.quantity]

\* create_lmt_order
create_lmt_order(b, client, symbol, quantity, side, lmt_price) ==
    LET order == Order(b.orderID, client, TYPE_LMT, side, symbol, quantity,
                       lmt_price)
        b1 == [b EXCEPT !.orderID = @ + 1]
    IN  IF ~CanSplit(symbol, ASSETS) THEN Raise(b1, "ValueError")
        ELSE
        Then(Then(IF side = SIDE_BID
                  THEN change_locked_asset_balance(b1, client,
                           split_symbol(symbol, ASSETS)[1],
                           get_value(order, None))
                  ELSE IF side = SIDE_ASK
                  THEN change_locked_asset_balance(b1, client,
                           split_symbol(symbol, ASSETS)[2], Units(quantity))
                  ELSE Raise(b1, "ValueError"),
                  LAMBDA b2 :
                      [b2 EXCEPT
                         !.bids = IF side = SIDE_BID
                                  THEN AddToLevel(@, symbol, order) ELSE @,
                         !.asks = IF side = SIDE_ASK
                                  THEN AddToLevel(@, symbol, order) ELSE @,
                         !.orders = SetKey(@, order.orderID, order),
                         !.ret = order.orderID]),
             LAMBDA b3 : LogRow(b3, "BINANCE_ORDERS", LogOrder(b3, order)))

\* create_mkt_order: a bid asks get_price for market 'mkt'
create_mkt_order(b, client, symbol, quantity, side) ==
    LET order == Order(b.orderID, client, TYPE_MKT, side, symbol, quantity,
                       None)
        b1 == [b EXCEPT !.orderID = @ + 1]
    IN  IF ~CanSplit(symbol, ASSETS) THEN Raise(b1, "ValueError")
        ELSE IF side = SIDE_BID
        THEN Then(get_price(b1, symbol, "mkt"),
                  LAMBDA pr :
                      Then(Then(change_locked_asset_balance(pr, client,
                               split_symbol(symbol, ASSETS)[1],
                               get_value(order, pr.ret)),
                           LAMBDA b2 :
                               [b2 EXCEPT
                                  !.mkt_orders =
                                      Append(@, set_price(order, pr.ret)),
                                  !.orders = SetKey(@, order.orderID,
                                                 set_price(order, pr.ret)),
                                  !.ret = order.orderID]),
                           LAMBDA b3 : LogRow(b3, "BINANCE_ORDERS",
                                              LogOrder(b3, order))))
        ELSE IF side = SIDE_ASK
        THEN Then(Then(change_locked_asset_balance(b1, client,
                      split_symbol(symbol, ASSETS)[2], Units(quantity)),
                  LAMBDA b2 :
                      [b2 EXCEPT !.mkt_orders = Append(@, order),
                                 !.orders = SetKey(@, order.orderID, order),
                                 !.ret = order.orderID]),
                  LAMBDA b3 : LogRow(b3, "BINANCE_ORDERS",
                                     LogOrder(b3, order)))
        ELSE Raise(b1, "ValueError")

(***************************************************************************)
(* Order removing                                                          *)
(***************************************************************************)
\* the places of the order with this id in a list, counted from 1
Places(lst, oid) == {i \in 1 .. Len(lst) : lst[i].orderID = oid}

\* the order popped from the list of its price level
PopFromLevel(book, order) ==
    LET lst == Get(book[order.symbol], order.lmt_price)
    IN  [book EXCEPT ![order.symbol] =
            Put(@, order.lmt_price, PopAt(lst, Min(Places(lst, order.orderID))))]

\* remove_order: once the order is found in its list it is popped and the
\* method returns; orders.pop is reached only when it was not found
remove_order(b, order) ==
    LET book == IF order.side = SIDE_BID THEN b.bids ELSE b.asks
        found ==
            IF order.type_ = TYPE_MKT
            THEN Places(b.mkt_orders, order.orderID) # {}
            ELSE /\ order.type_ = TYPE_LMT
                 /\ order.side \in {SIDE_BID, SIDE_ASK}
                 /\ Places(Get(book[order.symbol], order.lmt_price),
                           order.orderID) # {}
    IN  IF found
        THEN IF order.type_ = TYPE_MKT
             THEN [b EXCEPT !.mkt_orders =
                      PopAt(@, Min(Places(@, order.orderID)))]
             ELSE IF order.side = SIDE_BID
             THEN [b EXCEPT !.bids = PopFromLevel(@, order)]
             ELSE [b EXCEPT !.asks = PopFromLevel(@, order)]
        ELSE IF order.orderID \in DOMAIN b.orders
        THEN [b EXCEPT !.orders = DropKey(@, order.orderID)]
        ELSE Raise(b, "KeyError")

\* a close_order that would release what the account has locked
close_order_Unlocking(b, oid) ==
    IF oid \notin DOMAIN b.orders THEN Raise(b, "ValueError")
    ELSE Then(remove_order(b, b.orders[oid]),
              LAMBDA b1 :
                  [b1 EXCEPT !.asset_balances =
                      [c \in DOMAIN @ |->
                          [a \in DOMAIN @[c] |->
                              [@[c][a] EXCEPT !.locked = 0]]]])

close_order_KeepingOrder(b, oid) ==
    IF oid \notin DOMAIN b.orders THEN Raise(b, "ValueError")
    ELSE [b EXCEPT !.orders = DropKey(@, oid)]

\* close_order
close_order(b, oid) ==
    IF oid \notin DOMAIN b.orders THEN Raise(b, "ValueError")
    ELSE remove_order(b, b.orders[oid])

(***************************************************************************)
(* Order execution                                                         *)
(***************************************************************************)
\* calc_slippage
calc_slippage(price, symbol) == price

\* calc_commission, in 1/(PriceScale * RateDen)
calc_commission(order, price, maker) ==
    LET rate == IF maker THEN COMMISSIONS.maker ELSE COMMISSIONS.taker
        value == IF order.type_ = TYPE_MKT THEN get_value(order, price)
                 ELSE order.quantity * price
    IN  value * rate

\* add_commission: the commission is recorded per client and asset
add_commission(b, client, asset, commission) ==
    IF asset \notin ASSETS THEN Raise(b, "ValueError")
    ELSE IF asset \notin DOMAIN b.commissions[client]
    THEN [b EXCEPT !.commissions[client] = SetKey(@, asset, commission)]
    ELSE [b EXCEPT !.commissions[client][asset] = @ + commission]

\* the ledger calls of exec_order as they would be without the release of
\* what the order locked
LedgerSteps_KeepingLock(b, order, price) ==
    Let(split_symbol(order.symbol, ASSETS),
        LAMBDA assets :
            IF order.side = SIDE_BID
            THEN Then(change_total_asset_balance(b, order.clientID,
                          assets[1], -(order.quantity * price)),
                      LAMBDA b2 :
                          change_total_asset_balance(b2, order.clientID,
                                    assets[2], Units(order.quantity)))
            ELSE Then(change_total_asset_balance(b, order.clientID,
                          assets[2], -Units(order.quantity)),
                      LAMBDA b2 :
                          change_total_asset_balance(b2, order.clientID,
                                    assets[1], order.quantity * price)))

\* the three ledger calls of exec_order, one after the other; the first
\* that raises ends the call
LedgerSteps(b, order, price) ==
    Let(split_symbol(order.symbol, ASSETS),
        LAMBDA assets :
            IF order.side = SIDE_BID
            THEN Then(Then(IF order.type_ = TYPE_MKT
                           THEN change_locked_asset_balance(b, order.clientID,
                                    assets[1],
                                    -get_value(order, order.locked_price))
                           ELSE change_locked_asset_balance(b, order.clientID,
                                    assets[1], -get_value(order, None)),
                           LAMBDA b1 :
                               change_total_asset_balance(b1, order.clientID,
                                    assets[1], -(order.quantity * price))),
                      LAMBDA b2 :
                          change_total_asset_balance(b2, order.clientID,
                                    assets[2], Units(order.quantity)))
            ELSE Then(Then(change_locked_asset_balance(b, order.clientID,
                                    assets[2], -Units(order.quantity)),
                           LAMBDA b1 :
                               change_total_asset_balance(b1, order.clientID,
                                    assets[2], -Units(order.quantity))),
                      LAMBDA b2 :
                          change_total_asset_balance(b2, order.clientID,
                                    assets[1], order.quantity * price)))

\* exec_order: ledger, commission, the log row, then the order's callback
exec_order(b, order, price0, commission) ==
    LET price == calc_slippage(price0, order.symbol)
        execution == [price |-> price, quantity |-> order.quantity,
                      orderID |-> order.orderID, symbol |-> order.symbol,
                      side |-> order.side, commission |-> commission]
    IN  Then(Then(Then(LedgerSteps(b, order, price),
                       LAMBDA b3 :
                           add_commission(b3, order.clientID,
                                          split_symbol(order.symbol, ASSETS)[1],
                                          commission)),
                  LAMBDA b4 : LogRow(b4, "BINANCE_EXORDERS", execution)),
             LAMBDA b5 : [b5 EXCEPT !.executions = Append(@, execution)])

(***************************************************************************)
(* Order checking                                                          *)
(***************************************************************************)
\* "for order in orders" over the list of one price level, executing and
\* removing each order met: the list iterator yields the item at its index
\* in the list as it is then, and remove_order pops from that same list
RECURSIVE ExecLevel(_, _, _, _, _, _)
ExecLevel(b, side, symbol, key, i, price) ==
    LET lst == Get((IF side = SIDE_BID THEN b.bids ELSE b.asks)[symbol], key)
    IN  IF b.raised # "none" \/ i > Len(lst) THEN b
        ELSE Let(lst[i],
                 LAMBDA order :
                     Let(Then(exec_order(b, order, price,
                                         calc_commission(order, price, TRUE)),
                              LAMBDA b1 : remove_order(b1, order)),
                         LAMBDA b2 : ExecLevel(b2, side, symbol, key, i + 1,
                                               price)))

\* "for orders in valid.values()": the selected levels in dict order
RECURSIVE ExecLevels(_, _, _, _, _)
ExecLevels(b, side, symbol, valid, price) ==
    IF b.raised # "none" \/ valid = <<>> THEN b
    ELSE Let(Tail(valid),
             LAMBDA rest :
                 Let(ExecLevel(b, side, symbol, Head(valid).key, 1, price),
                     LAMBDA b1 : ExecLevels(b1, side, symbol, rest, price)))

\* "for order in self.mkt_orders": every pending market order, as taker
RECURSIVE ExecMarket(_, _, _)
ExecMarket(b, i, price) ==
    IF b.raised # "none" \/ i > Len(b.mkt_orders) THEN b
    ELSE Let(b.mkt_orders[i],
             LAMBDA order :
                 Let(exec_order(b, order, price,
                                calc_commission(order, price, FALSE)),
                     LAMBDA b1 : ExecMarket(b1, i + 1, price)))

\* asset_balance_log: the total of each asset, the last client's where
\* several clients hold it
AssetBalanceLog(b) ==
    LET holders(a) == {c \in DOMAIN b.asset_balances :
                          a \in DOMAIN b.asset_balances[c]}
        held == UNION {DOMAIN b.asset_balances[c] :
                          c \in DOMAIN b.asset_balances}
    IN  [a \in held |-> b.asset_balances[Max(holders(a))][a].total]

\* a check_orders that would return without clearing the queue
ClearMarketOrders_Kept(b) == [b EXCEPT !.ret = -1]

\* the end of check_orders: self.mkt_orders = []
ClearMarketOrders(b) == [b EXCEPT !.mkt_orders = <<>>, !.ret = -1]

\* check_orders
check_orders(b, symbol, mkt) ==
    Then(get_price(b, symbol, mkt),
         LAMBDA pr :
             Let(IF symbol \in DOMAIN b.asks
                 THEN get_keys_below(b.asks[symbol], pr.ret) ELSE <<>>,
                 LAMBDA valid_asks :
             Let(IF symbol \in DOMAIN b.bids
                 THEN get_keys_above(b.bids[symbol], pr.ret) ELSE <<>>,
                 LAMBDA valid_bids :
                 Then(Then(Then(Then(ExecLevels(b, SIDE_BID, symbol,
                                                valid_bids, pr.ret),
                                     LAMBDA b1 : ExecLevels(b1, SIDE_ASK,
                                                     symbol, valid_asks,
                                                     pr.ret)),
                                LAMBDA b2 : ExecMarket(b2, 1, pr.ret)),
                           LAMBDA b3 : LogRow(b3, "ASSETS",
                                              AssetBalanceLog(b3))),
                      LAMBDA b4 : ClearMarketOrders(b4)))))

(***************************************************************************)
(* Market data: sockets, updates and send_mkt_data                         *)
(***************************************************************************)
INTERVALS ==
    {"1m", "3m", "5m", "15m", "30m", "1h", "2h", "4h", "6h", "8h", "1d",
     "3d", "1w", "1M"}

MARGIN_SYMBOLS == {"BTCUSDT"}

\* the symbol list of a market
SymbolsOf(mkt) == IF mkt = "spot" THEN SPOT_SYMBOLS ELSE MARGIN_SYMBOLS

\* the tuple (clientID, callback) kept for a socket
Socket(client, callback) == [clientID |-> client, callback |-> callback]

\* the list without its first socket of this client (for ... break)
PopSocket(sockets, client) ==
    LET places == {i \in 1 .. Len(sockets) : sockets[i].clientID = client}
    IN  IF places = {} THEN sockets ELSE PopAt(sockets, Min(places))

\* the body shared by start_kline_socket and start_kline_futures_socket
StartKline_AnyInterval(b, mkt, client, symbol, callback, interval) ==
    IF symbol \notin SymbolsOf(mkt) THEN Raise(b, "ValueError")
    ELSE LET reg == b.kline_streaming_symbols[mkt]
             d0 == IF symbol \in DOMAIN reg THEN reg[symbol] ELSE EmptyDict
             l0 == IF interval \in DOMAIN d0 THEN d0[interval] ELSE <<>>
         IN  [b EXCEPT !.kline_streaming_symbols[mkt] =
                 SetKey(reg, symbol,
                        SetKey(d0, interval,
                               Append(l0, Socket(client, callback))))]

StartKline(b, mkt, client, symbol, callback, interval) ==
    IF symbol \notin SymbolsOf(mkt) THEN Raise(b, "ValueError")
    ELSE IF interval \notin INTERVALS THEN Raise(b, "ValueError")
    ELSE LET reg == b.kline_streaming_symbols[mkt]
             d0 == IF symbol \in DOMAIN reg THEN reg[symbol] ELSE EmptyDict
             l0 == IF interval \in DOMAIN d0 THEN d0[interval] ELSE <<>>
         IN  [b EXCEPT !.kline_streaming_symbols[mkt] =
                 SetKey(reg, symbol,
                        SetKey(d0, interval,
                               Append(l0, Socket(client, callback))))]

\* the body shared by stop_kline_socket and stop_kline_futures_socket
StopKline(b, mkt, client, symbol, interval) ==
    LET reg == b.kline_streaming_symbols[mkt]
    IN  IF symbol \notin DOMAIN reg THEN Raise(b, "ValueError")
        ELSE IF interval \notin INTERVALS THEN Raise(b, "ValueError")
        ELSE IF interval \notin DOMAIN reg[symbol] THEN Raise(b, "KeyError")
        ELSE [b EXCEPT !.kline_streaming_symbols[mkt][symbol][interval] =
                 PopSocket(@, client)]

start_kline_socket(b, client, symbol, callback, interval) ==
    StartKline(b, "spot", client, symbol, callback, interval)

stop_kline_socket(b, client, symbol, interval) ==
    StopKline(b, "spot", client, symbol, interval)

start_kline_futures_socket(b, client, symbol, callback, interval) ==
    StartKline(b, "margin", client, symbol, callback, interval)

stop_kline_futures_socket(b, client, symbol, interval) ==
    StopKline(b, "margin", client, symbol, interval)

start_symbol_mark_price_socket(b, client, symbol, callback) ==
    IF symbol \notin MARGIN_SYMBOLS THEN Raise(b, "ValueError")
    ELSE LET l0 == IF symbol \in DOMAIN b.mark_price_sockets
                   THEN b.mark_price_sockets[symbol] ELSE <<>>
         IN  [b EXCEPT !.mark_price_sockets =
                 SetKey(@, symbol, Append(l0, Socket(client, callback)))]

stop_symbol_mark_price_socket(b, client, symbol) ==
    IF symbol \notin MARGIN_SYMBOLS THEN Raise(b, "ValueError")
    ELSE IF symbol \notin DOMAIN b.mark_price_sockets
    THEN Raise(b, "KeyError")
    ELSE [b EXCEPT !.mark_price_sockets[symbol] = PopSocket(@, client)]

\* update_klines: the bar is stored and the interval appended to the
\* updated list of the symbol
update_klines(b, symbol, interval, kline, mkt) ==
    LET k0 == IF symbol \in DOMAIN b.klines[mkt]
              THEN b.klines[mkt][symbol] ELSE EmptyDict
        upd == b.klines_updated[mkt]
        u0 == IF symbol \in Keys(upd) THEN Get(upd, symbol) ELSE <<>>
    IN  [b EXCEPT !.klines[mkt] = SetKey(@, symbol, SetKey(k0, interval, kline)),
                  !.klines_updated[mkt] =
                      Put(upd, symbol, Append(u0, interval))]

\* membership in a list
InList(lst, x) == \E i \in 1 .. Len(lst) : lst[i] = x

\* update_mark_price
update_mark_price(b, symbol, price) ==
    [b EXCEPT !.mark_price = SetKey(@, symbol, price),
              !.mark_price_updated =
                  IF InList(@, symbol) THEN @ ELSE Append(@, symbol)]

\* rates are counted in 1/RateScale, a tenth of the eighth decimal place:
\* INTEREST_RATE 0.0001, clamp at 0.0005, round(_, 8) to RoundUnit
RateScale == 1000000000

INTEREST_RATE == 100000

ClampBound == 500000

RoundUnit == 10

clamp(num, min_value, max_value) == Max({Min({num, max_value}), min_value})

\* round(number, 8): the nearest multiple of RoundUnit, the even one of the
\* two when the number lies half-way between them
round(number) ==
    LET below == number \div RoundUnit
        rest == number % RoundUnit
    IN  IF 2 * rest < RoundUnit THEN below * RoundUnit
        ELSE IF 2 * rest > RoundUnit THEN (below + 1) * RoundUnit
        ELSE IF below % 2 = 0 THEN below * RoundUnit
        ELSE (below + 1) * RoundUnit

update_funding_rate_Unrounded(b, symbol, premium_rate) ==
    [b EXCEPT !.funding_rates =
                  SetKey(@, symbol,
                         premium_rate + clamp(INTEREST_RATE - premium_rate,
                                              0 - ClampBound, ClampBound)),
              !.mark_price_updated =
                  IF InList(@, symbol) THEN @ ELSE Append(@, symbol)]

\* update_funding_rate
update_funding_rate(b, symbol, premium_rate) ==
    [b EXCEPT !.funding_rates =
                  SetKey(@, symbol,
                         round(premium_rate
                                   + clamp(INTEREST_RATE - premium_rate,
                                           0 - ClampBound, ClampBound))),
              !.mark_price_updated =
                  IF InList(@, symbol) THEN @ ELSE Append(@, symbol)]

\* the quantity and the limit price of the order TestStrategy.callback
\* submits (0.00001 BTCUSDT at 43600 in the source)
StrategyQty == 1

StrategyPrice == MaxPrice

\* _tuple[1](data): the callback of a socket is invoked.  A listener only
\* receives; TestStrategy.callback submits its limit Ask; an unsubscriber
\* closes the spot bar socket it was called through, with its client's
\* stop_kline_socket.
Deliver(b, path, socket, data) ==
    LET b1 == [b EXCEPT !.delivered =
                  Append(@, [key |-> path, clientID |-> socket.clientID,
                             callback |-> socket.callback, data |-> data])]
    IN  IF socket.callback = "TestStrategy.callback"
        THEN Then(create_lmt_order(b1, socket.clientID, "BTCUSDT",
                                   StrategyQty, SIDE_ASK, StrategyPrice),
                  LAMBDA b2 : [b2 EXCEPT !.ret = -1])
        ELSE IF socket.callback = "unsubscriber" /\ Len(path) = 3
                /\ path[1] = "spot"
        THEN Then(stop_kline_socket(b1, socket.clientID, path[2], path[3]),
                  LAMBDA b2 : [b2 EXCEPT !.ret = -1])
        ELSE b1

\* the list a loop of send_mkt_data walks: the registry's own list object,
\* <<mkt, symbol, interval>> for bars and <<symbol>> for mark prices
LiveSockets(b, path) ==
    IF Len(path) = 1 THEN b.mark_price_sockets[path[1]]
    ELSE b.kline_streaming_symbols[path[1]][path[2]][path[3]]

\* for _tuple in sockets: _tuple[1](data)
RECURSIVE DeliverAll(_, _, _, _)
DeliverAll(b, path, i, data) ==
    IF i > Len(LiveSockets(b, path)) THEN b
    ELSE Then(Deliver(b, path, LiveSockets(b, path)[i], data),
              LAMBDA b1 : DeliverAll(b1, path, i + 1, data))

\* send_mkt_data: for symbol in self.mark_price_updated
RECURSIVE SendMarkPrices(_, _)
SendMarkPrices(b, i) ==
    IF i > Len(b.mark_price_updated) THEN b
    ELSE LET symbol == b.mark_price_updated[i]
         IN  IF \/ symbol \notin DOMAIN b.mark_price
                \/ symbol \notin DOMAIN b.funding_rates
                \/ symbol \notin DOMAIN b.mark_price_sockets
             THEN Raise(b, "KeyError")
             ELSE Then(DeliverAll(b, <<symbol>>, 1,
                                  [symbol |-> symbol,
                                   mark_price |-> b.mark_price[symbol],
                                   funding_rate |-> b.funding_rates[symbol]]),
                       LAMBDA b1 : SendMarkPrices(b1, i + 1))

\* send_mkt_data: for interval in self.klines_updated[mkt][symbol]
RECURSIVE SendIntervals(_, _, _, _, _)
SendIntervals(b, mkt, symbol, intervals, j) ==
    IF j > Len(intervals) THEN b
    ELSE LET reg == b.kline_streaming_symbols[mkt]
             interval == intervals[j]
         IN  IF symbol \notin DOMAIN reg
             THEN SendIntervals(b, mkt, symbol, intervals, j + 1)
             ELSE IF interval \notin DOMAIN reg[symbol]
             THEN SendIntervals(b, mkt, symbol, intervals, j + 1)
             ELSE Then(DeliverAll(b, <<mkt, symbol, interval>>, 1,
                                  b.klines[mkt][symbol][interval]),
                       LAMBDA b1 : SendIntervals(b1, mkt, symbol, intervals,
                                                 j + 1))

\* send_mkt_data: for symbol in self.klines_updated[mkt]
RECURSIVE SendKlines(_, _, _)
SendKlines(b, mkt, k) ==
    IF k > Len(b.klines_updated[mkt]) THEN b
    ELSE Then(SendIntervals(b, mkt, b.klines_updated[mkt][k].key,
                            b.klines_updated[mkt][k].val, 1),
              LAMBDA b1 : SendKlines(b1, mkt, k + 1))

send_mkt_data_KeepingUpdated(b) ==
    Then(Then(Then(SendMarkPrices(b, 1),
                   LAMBDA b1 : [b1 EXCEPT !.mark_price_updated = <<>>]),
              LAMBDA b2 : SendKlines(b2, "spot", 1)),
         LAMBDA b3 :
             Then(SendKlines(b3, "margin", 1),
                  LAMBDA b4 : [b4 EXCEPT !.ret = -1]))

\* send_mkt_data
send_mkt_data(b) ==
    Then(Then(Then(SendMarkPrices(b, 1),
                   LAMBDA b1 : [b1 EXCEPT !.mark_price_updated = <<>>]),
              LAMBDA b2 : SendKlines(b2, "spot", 1)),
         LAMBDA b3 :
             Then(SendKlines(b3, "margin", 1),
                  LAMBDA b4 :
                      [b4 EXCEPT !.klines_updated =
                                     [spot |-> <<>>, margin |-> <<>>],
                                 !.ret = -1]))

(***************************************************************************)
(* The state machine: the broker after construction, and one action per    *)
(* call a strategy or the backtester makes.                                *)
(***************************************************************************)
\* BinanceBroker.__init__ (with the Logger the backtester hands it)
AfterConstruction ==
    [clientID |-> 0, orderID |-> 0, asset_balances |-> EmptyDict,
     commissions |-> EmptyDict, asks |-> [s \in SPOT_SYMBOLS |-> <<>>],
     bids |-> [s \in SPOT_SYMBOLS |-> <<>>], mkt_orders |-> <<>>,
     orders |-> EmptyDict, trade_data |-> EmptyDict,
     kline_streaming_symbols |-> [spot |-> EmptyDict, margin |-> EmptyDict],
     klines |-> [spot |-> EmptyDict, margin |-> EmptyDict],
     klines_updated |-> [spot |-> <<>>, margin |-> <<>>],
     mark_price |-> EmptyDict, funding_rates |-> EmptyDict,
     mark_price_sockets |-> EmptyDict, mark_price_updated |-> <<>>,
     logged_data |-> EmptyDict, delivered |-> <<>>,
     executions |-> <<>>, raised |-> "none", ret |-> -1]

\* the variables hold the fields of the broker b
Holds(b) ==
    /\ clientID = b.clientID
    /\ orderID = b.orderID
    /\ asset_balances = b.asset_balances
    /\ commissions = b.commissions
    /\ asks = b.asks
    /\ bids = b.bids
    /\ mkt_orders = b.mkt_orders
    /\ orders = b.orders
    /\ trade_data = b.trade_data
    /\ kline_streaming_symbols = b.kline_streaming_symbols
    /\ klines = b.klines
    /\ klines_updated = b.klines_updated
    /\ mark_price = b.mark_price
    /\ funding_rates = b.funding_rates
    /\ mark_price_sockets = b.mark_price_sockets
    /\ mark_price_updated = b.mark_price_updated
    /\ logged_data = b.logged_data
    /\ delivered = b.delivered
    /\ executions = b.executions

(***************************************************************************)
(* BinanceFuturesBroker (src/src/binance_futures.py).  The record holds    *)
(* the fields of the broker and, of the last call made on it: its name,    *)
(* the exception it raised, what it returned and the callbacks it invoked. *)
(***************************************************************************)
BINANCE_SIDE_ASK == 0
BINANCE_SIDE_BID == 1
BINANCE_TYPE_MKT == 2
BINANCE_TYPE_LMT == 3

\* BinanceFuturesBroker.SYMBOLS
FUTURES_SYMBOLS == {"BTCUSDT", "ADAAUD"}

AfterFuturesConstruction ==
    [orderID |-> 0, kline_data |-> EmptyDict, kline_sockets |-> EmptyDict,
     kline_data_updated |-> <<>>, market_orders |-> <<>>,
     bids |-> EmptyDict, asks |-> EmptyDict, orders |-> EmptyDict,
     op |-> "init", raised |-> "none", ret |-> -1, delivered |-> <<>>]

\* a call starts: nothing raised, returned or delivered yet
Called(fb, op) ==
    [fb EXCEPT !.op = op, !.raised = "none", !.ret = -1, !.delivered = <<>>]

\* BinanceFuturesBroker.start_kline_futures_socket
futures_start_kline_futures_socket(fb, client, callback, symbol, interval) ==
    LET f0 == Called(fb, "start_kline_futures_socket")
    IN  IF symbol \notin FUTURES_SYMBOLS THEN Raise(f0, "ValueError")
        ELSE IF interval \notin INTERVALS THEN Raise(f0, "ValueError")
        ELSE LET d0 == IF symbol \in DOMAIN f0.kline_sockets
                       THEN f0.kline_sockets[symbol] ELSE EmptyDict
                 l0 == IF interval \in DOMAIN d0 THEN d0[interval] ELSE <<>>
             IN  [f0 EXCEPT !.kline_sockets =
                     SetKey(@, symbol,
                            SetKey(d0, interval,
                                   Append(l0, Socket(client, callback))))]

\* update_kline_data: the bar is stored and the interval appended to the
\* updated list of the symbol
update_kline_data(fb, symbol, interval, kline) ==
    LET f0 == Called(fb, "update_kline_data")
        k0 == IF symbol \in DOMAIN f0.kline_data
              THEN f0.kline_data[symbol] ELSE EmptyDict
        upd == f0.kline_data_updated
        u0 == IF symbol \in Keys(upd) THEN Get(upd, symbol) ELSE <<>>
    IN  [f0 EXCEPT !.kline_data = SetKey(@, symbol, SetKey(k0, interval, kline)),
                   !.kline_data_updated = Put(upd, symbol, Append(u0, interval))]

\* the callbacks send_market_data invokes for the intervals from place j of
\* the updated list of a symbol
RECURSIVE FuturesDeliverIntervals(_, _, _, _)
FuturesDeliverIntervals(fb, symbol, intervals, j) ==
    IF j > Len(intervals) THEN <<>>
    ELSE LET interval == intervals[j]
             streamed == /\ symbol \in DOMAIN fb.kline_sockets
                         /\ interval \in DOMAIN fb.kline_sockets[symbol]
             sockets == IF streamed THEN fb.kline_sockets[symbol][interval]
                        ELSE <<>>
             kline == fb.kline_data[symbol][interval]
         IN  [i \in 1 .. Len(sockets) |->
                 [key |-> <<symbol, interval>>,
                  clientID |-> sockets[i].clientID,
                  callback |-> sockets[i].callback, data |-> kline]]
             \o FuturesDeliverIntervals(fb, symbol, intervals, j + 1)

\* ... and for the symbols from place i of kline_data_updated
RECURSIVE FuturesDeliverSymbols(_, _)
FuturesDeliverSymbols(fb, i) ==
    IF i > Len(fb.kline_data_updated) THEN <<>>
    ELSE FuturesDeliverIntervals(fb, fb.kline_data_updated[i].key,
                                 fb.kline_data_updated[i].val, 1)
         \o FuturesDeliverSymbols(fb, i + 1)

\* BinanceFuturesBroker.send_market_data: every socket of every updated
\* (symbol, interval) is called with the stored bar; kline_data_updated is
\* not written
send_market_data(fb) ==
    LET f0 == Called(fb, "send_market_data")
    IN  [f0 EXCEPT !.delivered = FuturesDeliverSymbols(f0, 1)]

\* Order.__init__ of binance_futures.py: only the two order types are taken
FuturesOrder(id, client, callback, symbol, side, type_, quantity, price) ==
    [orderID |-> id, clientID |-> client, callback |-> callback,
     symbol |-> symbol, side |-> side, type_ |-> type_,
     quantity |-> quantity,
     price |-> IF type_ = BINANCE_TYPE_LMT THEN price ELSE 0]

\* BinanceFuturesBroker.futures_create_order: a market order is appended to
\* market_orders, a limit bid to bids[symbol][price]; a limit order of any
\* other side is put nowhere; every order is recorded in orders
futures_create_order(fb, client, callback, symbol, side, type_, quantity, price) ==
    LET f0 == Called(fb, "futures_create_order")
        order == FuturesOrder(f0.orderID, client, callback, symbol, side,
                              type_, quantity, price)
        levels == IF symbol \in DOMAIN f0.bids THEN f0.bids[symbol]
                  ELSE EmptyDict
        level == IF price \in DOMAIN levels THEN levels[price] ELSE <<>>
    IN  IF type_ \notin {BINANCE_TYPE_MKT, BINANCE_TYPE_LMT}
        THEN Raise(f0, "ValueError")
        ELSE [f0 EXCEPT
                !.orderID = @ + 1,
                !.market_orders = IF type_ = BINANCE_TYPE_MKT
                                  THEN Append(@, order) ELSE @,
                !.bids = IF type_ = BINANCE_TYPE_LMT
                            /\ side = BINANCE_SIDE_BID
                         THEN SetKey(@, symbol,
                                     SetKey(levels, price,
                                            Append(level, order)))
                         ELSE @,
                !.orders = SetKey(@, order.orderID, order),
                !.ret = order.orderID]

\* no backtest is running and no margin account is open
Idle ==
    /\ backtester = [pc |-> "idle"]
    /\ account = [symbol |-> "none"]
    /\ futures = AfterFuturesConstruction

Init ==
    /\ Holds(AfterConstruction)
    /\ last = [op |-> "init", raised |-> "none", arg |-> <<>>]
    /\ Idle

\* the broker's fields after a call, and the record of the call
CommitBroker(r, op, arg) ==
    /\ clientID' = r.clientID
    /\ orderID' = r.orderID
    /\ asset_balances' = r.asset_balances
    /\ commissions' = r.commissions
    /\ asks' = r.asks
    /\ bids' = r.bids
    /\ mkt_orders' = r.mkt_orders
    /\ orders' = r.orders
    /\ trade_data' = r.trade_data
    /\ kline_streaming_symbols' = r.kline_streaming_symbols
    /\ klines' = r.klines
    /\ klines_updated' = r.klines_updated
    /\ mark_price' = r.mark_price
    /\ funding_rates' = r.funding_rates
    /\ mark_price_sockets' = r.mark_price_sockets
    /\ mark_price_updated' = r.mark_price_updated
    /\ logged_data' = r.logged_data
    /\ delivered' = r.delivered
    /\ executions' = r.executions
    /\ last' = [op |-> op, raised |-> r.raised,
                arg |-> IF r.raised = "none" THEN arg ELSE <<>>]

\* a call made on the broker outside of run_backtest
Commit(r, op, arg) ==
    /\ CommitBroker(r, op, arg)
    /\ UNCHANGED <<backtester, account, futures>>

GetClient ==
    /\ clientID < MaxClients
    /\ \E r \in {get_client(Broker)} : Commit(r, "get_client", <<>>)

AddAccountBalance ==
    \E c \in ClientInputs, a \in AssetInputs, amount \in AmountInputs :
        /\ (c \in DOMAIN asset_balances /\ a \in DOMAIN asset_balances[c])
               => asset_balances[c][a].total + amount <= MaxBalance
        /\ \E r \in {add_account_balance(Broker, c, a, amount)} :
               Commit(r, "add_account_balance", <<>>)

CreateLmt(maxOrders) ==
    \E c \in ClientInputs, s \in OrderSymbols, q \in QtyInputs,
       side \in SideInputs, p \in PriceInputs :
        /\ orderID < maxOrders
        /\ \E r \in {create_lmt_order(Broker, c, s, q, side, p)} :
               Commit(r, "create_lmt_order",
                  [clientID |-> c, symbol |-> s, quantity |-> q,
                   side |-> side, price |-> p])

CreateMkt(maxOrders) ==
    \E c \in ClientInputs, s \in OrderSymbols, q \in QtyInputs,
       side \in SideInputs :
        /\ orderID < maxOrders
        /\ \E r \in {create_mkt_order(Broker, c, s, q, side)} :
               Commit(r, "create_mkt_order",
                  [clientID |-> c, symbol |-> s, quantity |-> q,
                   side |-> side])

CreateLmtOrder == CreateLmt(MaxOrders)

CreateMktOrder == CreateMkt(MaxOrders)

CloseOrder ==
    \E oid \in 0 .. MaxOrders :
        \E r \in {close_order(Broker, oid)} : Commit(r, "close_order", oid)

UpdateTradeData ==
    \E s \in TickSymbols : \E p \in TickPrices(s) :
        \E r \in {update_trade_data(Broker, s, p)} :
            Commit(r, "update_trade_data", s)

CheckOrders ==
    \E s \in TickSymbols :
        \E r \in {check_orders(Broker, s, "spot")} :
            Commit(r, "check_orders", s)

Next ==
    \/ GetClient
    \/ AddAccountBalance
    \/ CreateLmtOrder
    \/ CreateMktOrder
    \/ CloseOrder
    \/ UpdateTradeData
    \/ CheckOrders

Spec == Init /\ [][Next]_vars

(***************************************************************************)
(* The broker as a strategy meets it: TestStrategy.__init__                *)
(* (src/test_classes/test_strategy.py) has registered its client and       *)
(* credited it with the two assets of BTCUSDT and opened its bar socket;   *)
(* from there on it submits and cancels orders while the backtester feeds  *)
(* trades.                                                                 *)
(***************************************************************************)
AfterStrategyInit ==
    start_kline_socket(
        add_account_balance(
            add_account_balance(get_client(AfterConstruction), 0, "USDT",
                                MaxBalance),
            0, "BTC", MaxBalance),
        0, "BTCUSDT", "TestStrategy.callback", "15m")

InitStrategy ==
    /\ Holds(AfterStrategyInit)
    /\ last = [op |-> "add_account_balance", raised |-> "none", arg |-> <<>>]
    /\ Idle

StrategyLmtOrder == CreateLmt(MaxStrategyOrders)

StrategyMktOrder == CreateMkt(MaxStrategyOrders)

NextStrategy ==
    \/ StrategyLmtOrder
    \/ StrategyMktOrder
    \/ CloseOrder
    \/ UpdateTradeData
    \/ CheckOrders

SpecStrategy == InitStrategy /\ [][NextStrategy]_vars

(***************************************************************************)
(* Vocabulary of the properties                                            *)
(***************************************************************************)
\* total and locked of an account's asset (0 when it holds no entry)
TotalOf(ab, c, a) ==
    IF c \in DOMAIN ab /\ a \in DOMAIN ab[c] THEN ab[c][a].total ELSE 0

LockedOf(ab, c, a) ==
    IF c \in DOMAIN ab /\ a \in DOMAIN ab[c] THEN ab[c][a].locked ELSE 0

AvailableOf(ab, c, a) == TotalOf(ab, c, a) - LockedOf(ab, c, a)

\* BTCUSDT: base BTC, quote USDT
BaseOf(symbol) == split_symbol(symbol, ASSETS)[1]

QuoteOf(symbol) == split_symbol(symbol, ASSETS)[2]

\* the orders resting in the levels of one side of a symbol's book
RestingIn(book, symbol) ==
    IF symbol \in DOMAIN book
    THEN UNION {{book[symbol][k].val[i] : i \in 1 .. Len(book[symbol][k].val)} :
                k \in 1 .. Len(book[symbol])}
    ELSE {}

\* every order held in a pending structure
PendingOrders ==
    UNION {RestingIn(bids, s) \cup RestingIn(asks, s) : s \in DOMAIN bids \cup DOMAIN asks}
        \cup {mkt_orders[i] : i \in 1 .. Len(mkt_orders)}

\* the execution records a step has added
NewExecutions == SubSeq(executions', Len(executions) + 1, Len(executions'))

ExecutedIn(execs, oid) == \E j \in 1 .. Len(execs) : execs[j].orderID = oid

\* a step that is a call of op returning normally
Returned(op) == last'.op = op /\ last'.raised = "none"

\* a check_orders that returned normally and executed exactly one order
OneFill == Returned("check_orders") /\ Len(executions') = Len(executions) + 1

FilledOrder ==
    CHOOSE o \in PendingOrders :
        o.orderID = executions'[Len(executions')].orderID

\* change of a balance entry over a step
DTotal(c, a) == TotalOf(asset_balances', c, a) - TotalOf(asset_balances, c, a)

DLocked(c, a) == LockedOf(asset_balances', c, a) - LockedOf(asset_balances, c, a)

(***************************************************************************)
(* Properties                                                              *)
(***************************************************************************)
\* C1: for every account and asset, 0 <= locked <= total in every
\* reachable state.
C1_LockedWithinTotal ==
    \A c \in DOMAIN asset_balances : \A a \in DOMAIN asset_balances[c] :
        /\ 0 <= asset_balances[c][a].locked
        /\ asset_balances[c][a].locked <= asset_balances[c][a].total

\* C2: a submission (create_lmt_order, create_mkt_order) whose reservation
\* exceeds the available balance (total - locked) of the asset it locks
\* fails, adds no order and changes no balance; so whatever a submission
\* step reserves of an asset was available before it.
C2_InsufficientBalanceRejected ==
    [][last'.op \in {"create_lmt_order", "create_mkt_order"} =>
        \A c \in DOMAIN asset_balances : \A a \in DOMAIN asset_balances[c] :
            DLocked(c, a) > AvailableOf(asset_balances, c, a) =>
                /\ last'.raised # "none"
                /\ orders' = orders
                /\ asset_balances' = asset_balances]_vars

\* C3: an accepted limit order of quantity q at limit price L: a Bid
\* increases locked[quote] by q*L, an Ask increases locked[base] by q, no
\* other balance entry changes, and the order is the last of the list of
\* its side's price level L.
C3_LimitOrderLocksAndRests ==
    [][Returned("create_lmt_order") =>
        LET o == orders'[orderID]
            sym == o.symbol
            lockAsset == IF o.side = SIDE_BID THEN QuoteOf(sym) ELSE BaseOf(sym)
            amount == IF o.side = SIDE_BID THEN o.quantity * o.lmt_price
                      ELSE Units(o.quantity)
            book == IF o.side = SIDE_BID THEN bids' ELSE asks'
            lst == Get(book[sym], o.lmt_price)
        IN  /\ DLocked(o.clientID, lockAsset) = amount
            /\ \A c \in DOMAIN asset_balances' : \A a \in ASSETS :
                  /\ DTotal(c, a) = 0
                  /\ (c # o.clientID \/ a # lockAsset) => DLocked(c, a) = 0
            /\ o.lmt_price \in Keys(book[sym])
            /\ lst # <<>> /\ lst[Len(lst)] = o]_vars

\* C4: a market Bid of quantity q on BTCUSDT by an account whose available
\* quote balance covers q*p, p the reference price, is accepted, locks q*p
\* of the quote asset and caches p on the order; the next check_orders at
\* that price releases the lock, decreases total[quote] by q*p plus the
\* taker commission and increases total[base] by q.  Stated for the states
\* where no other order is pending.
C4_MarketBidLocksAtReferencePrice ==
    \A c \in DOMAIN asset_balances : \A q \in QtyInputs :
        (/\ "BTCUSDT" \in DOMAIN trade_data
         /\ PendingOrders = {}
         /\ AvailableOf(asset_balances, c, "USDT") >= q * trade_data["BTCUSDT"]) =>
            LET p == trade_data["BTCUSDT"]
                r == create_mkt_order(Broker, c, "BTCUSDT", q, SIDE_BID)
                f == check_orders(r, "BTCUSDT", "spot")
            IN  /\ r.raised = "none"
                /\ LockedOf(r.asset_balances, c, "USDT")
                       = LockedOf(asset_balances, c, "USDT") + q * p
                /\ r.mkt_orders # <<>>
                /\ r.mkt_orders[Len(r.mkt_orders)].locked_price = p
                /\ f.raised = "none"
                /\ LockedOf(f.asset_balances, c, "USDT")
                       = LockedOf(asset_balances, c, "USDT")
                /\ RateDen * (TotalOf(asset_balances, c, "USDT")
                                - TotalOf(f.asset_balances, c, "USDT") - q * p)
                       = q * p * COMMISSIONS.taker
                /\ TotalOf(f.asset_balances, c, "BTC")
                       = TotalOf(asset_balances, c, "BTC") + Units(q)

\* C5: when a resting limit order of quantity q fills at price p, the lock
\* made at its submission is released, and a Bid decreases total[quote] by
\* q*p and increases total[base] by q, an Ask decreases total[base] by q
\* and increases total[quote] by q*p.  Stated on the check_orders steps that
\* execute exactly one order.
C5_LimitFillMovesBothLegs ==
    [][(OneFill /\ FilledOrder.type_ = TYPE_LMT) =>
        LET o == FilledOrder
            e == executions'[Len(executions')]
            base == BaseOf(o.symbol)
            quote == QuoteOf(o.symbol)
        IN  IF o.side = SIDE_BID
            THEN /\ DLocked(o.clientID, base) + DLocked(o.clientID, quote)
                        = 0 - o.quantity * o.lmt_price
                 /\ DTotal(o.clientID, quote) = 0 - o.quantity * e.price
                 /\ DTotal(o.clientID, base) = Units(o.quantity)
            ELSE /\ DLocked(o.clientID, base) + DLocked(o.clientID, quote)
                        = 0 - Units(o.quantity)
                 /\ DTotal(o.clientID, base) = 0 - Units(o.quantity)
                 /\ DTotal(o.clientID, quote) = o.quantity * e.price]_vars

\* C6: the commission of an execution record is q*p*rate (maker rate for a
\* limit order, taker rate for a market order) and it is debited from the
\* account's total balance: valued at the fill price p, the changes of
\* total[base] and total[quote] and the commission sum to zero.  With
\* balances in 1/PriceScale and the commission in 1/(PriceScale*RateDen)
\* the sum is scaled by PriceScale^2 * RateDen.
C6_CommissionDebited ==
    [][OneFill =>
        LET o == FilledOrder
            e == executions'[Len(executions')]
            rate == IF o.type_ = TYPE_LMT THEN COMMISSIONS.maker
                    ELSE COMMISSIONS.taker
        IN  /\ e.commission = o.quantity * e.price * rate
            /\ RateDen * PriceScale * DTotal(o.clientID, QuoteOf(o.symbol))
                 + RateDen * e.price * DTotal(o.clientID, BaseOf(o.symbol))
                 + PriceScale * e.commission = 0]_vars

\* C7: a resting limit Ask at L stays in the book while the reference price
\* is below L and is filled and removed by the first check_orders of its
\* symbol with reference price >= L; a resting limit Bid at L stays while
\* the reference price is above L and is filled and removed by the first
\* check_orders with reference price <= L.
C7_LimitOrderFillsWhenCrossed ==
    [][Returned("check_orders") =>
        LET s == last'.arg
            p == trade_data[s]
        IN  /\ \A o \in RestingIn(asks, s) :
                  IF p >= o.lmt_price
                  THEN /\ o \notin RestingIn(asks', s)
                       /\ ExecutedIn(NewExecutions, o.orderID)
                  ELSE /\ o \in RestingIn(asks', s)
                       /\ ~ExecutedIn(NewExecutions, o.orderID)
            /\ \A o \in RestingIn(bids, s) :
                  IF p <= o.lmt_price
                  THEN /\ o \notin RestingIn(bids', s)
                       /\ ExecutedIn(NewExecutions, o.orderID)
                  ELSE /\ o \in RestingIn(bids', s)
                       /\ ~ExecutedIn(NewExecutions, o.orderID)]_vars

\* the order ids of a list of orders or of execution records
IdsOf(lst) == [i \in 1 .. Len(lst) |-> lst[i].orderID]

\* C8: after check_orders(symbol) with reference price p returns normally
\* no limit order of that symbol with ask price <= p or bid price >= p is
\* still resting, and the orders of every level at such a price have been
\* executed in list order, also when several orders share the level.
C8_NoCrossedOrderLeftResting ==
    [][Returned("check_orders") =>
        LET s == last'.arg
            p == trade_data[s]
            InOrder(lvl) ==
                SelectSeq(IdsOf(NewExecutions),
                          LAMBDA x : \E i \in 1 .. Len(lvl) : lvl[i].orderID = x)
                    = IdsOf(lvl)
        IN  /\ \A o \in RestingIn(asks', s) : o.lmt_price > p
            /\ \A o \in RestingIn(bids', s) : o.lmt_price < p
            /\ \A k \in 1 .. Len(asks[s]) :
                  asks[s][k].key <= p => InOrder(asks[s][k].val)
            /\ \A k \in 1 .. Len(bids[s]) :
                  bids[s][k].key >= p => InOrder(bids[s][k].val)]_vars

C10_CloseOfAbsentOrderFails ==
    [][Returned("close_order") =>
        \E o \in PendingOrders : o.orderID = last'.arg]_vars

\* C11: a close_order that returns normally removes the order from the
\* structure that holds it, leaves every other pending order where it is,
\* and leaves every balance entry (total and locked, of every account and
\* asset) unchanged: what the order locked at submission stays locked.
C11_CloseLeavesBalances ==
    [][Returned("close_order") =>
        /\ asset_balances' = asset_balances
        /\ PendingOrders' = {o \in PendingOrders : o.orderID # last'.arg}]_vars

\* an order has just been closed, it is pending nowhere and what it locked
\* is still locked
C11_ClosedOrderStillLocks ==
    /\ last.op = "close_order" /\ last.raised = "none"
    /\ last.arg \in DOMAIN orders
    /\ PendingOrders = {}
    /\ \E c \in DOMAIN asset_balances : \E a \in DOMAIN asset_balances[c] :
          asset_balances[c][a].locked > 0

(***************************************************************************)
(* The sockets of the broker: strategies open and close bar sockets of     *)
(* the spot and of the futures market.                                     *)
(***************************************************************************)
\* sockets kept in one list
MaxSockets == 2

SpotSocketSymbols == {"BTCUSDT", "BTCEUR"}
FuturesSocketSymbols == {"BTCUSDT", "ADAAUD"}
IntervalInputs == {"15m", "2m"}
CallbackInputs == {"listener"}

\* the sockets of a key (none when the key is not in the registry)
SocketsOf(reg, symbol, interval) ==
    IF symbol \in DOMAIN reg /\ interval \in DOMAIN reg[symbol]
    THEN reg[symbol][interval] ELSE <<>>

StartKlineSocket ==
    \E c \in ClientInputs, s \in SpotSocketSymbols, cb \in CallbackInputs,
       i \in IntervalInputs :
        /\ Len(SocketsOf(kline_streaming_symbols.spot, s, i)) < MaxSockets
        /\ \E r \in {start_kline_socket(Broker, c, s, cb, i)} :
               Commit(r, "start_kline_socket",
                      [clientID |-> c, symbol |-> s, interval |-> i])

StopKlineSocket ==
    \E c \in ClientInputs, s \in SpotSocketSymbols, i \in IntervalInputs :
        \E r \in {stop_kline_socket(Broker, c, s, i)} :
            Commit(r, "stop_kline_socket",
                   [clientID |-> c, symbol |-> s, interval |-> i])

StartKlineFuturesSocket ==
    \E c \in ClientInputs, s \in FuturesSocketSymbols,
       cb \in CallbackInputs, i \in IntervalInputs :
        /\ Len(SocketsOf(kline_streaming_symbols.margin, s, i)) < MaxSockets
        /\ \E r \in {start_kline_futures_socket(Broker, c, s, cb, i)} :
               Commit(r, "start_kline_futures_socket",
                      [clientID |-> c, symbol |-> s, interval |-> i])

StopKlineFuturesSocket ==
    \E c \in ClientInputs, s \in FuturesSocketSymbols, i \in IntervalInputs :
        \E r \in {stop_kline_futures_socket(Broker, c, s, i)} :
            Commit(r, "stop_kline_futures_socket",
                   [clientID |-> c, symbol |-> s, interval |-> i])

NextSockets ==
    \/ StartKlineSocket
    \/ StopKlineSocket
    \/ StartKlineFuturesSocket
    \/ StopKlineFuturesSocket

SpecSockets == Init /\ [][NextSockets]_vars

(***************************************************************************)
(* The market data feed: subscribers open sockets on BTCUSDT (the k-th     *)
(* socket of a list is opened by client k), the backtester stores bars,    *)
(* mark prices and funding rates and calls send_mkt_data.                  *)
(***************************************************************************)
\* intervals waiting in the updated lists of the two markets
MaxUpdates == 2

\* bars are numbered
MaxKline == 2

\* premium rates, in multiples of 0.0001
MaxPremium == 7

KlineInputs == 1 .. MaxKline
MarketInputs == {"spot", "margin"}
PremiumInputs == {0 - MaxPremium * INTEREST_RATE, MaxPremium * INTEREST_RATE}

\* the number of intervals in the updated lists of a market
RECURSIVE Pending(_, _)
Pending(upd, k) ==
    IF k > Len(upd) THEN 0 ELSE Len(upd[k].val) + Pending(upd, k + 1)

SubscribeKlines ==
    \E m \in MarketInputs :
        LET n == Len(SocketsOf(kline_streaming_symbols[m], "BTCUSDT", "15m"))
        IN  /\ n < MaxSockets
            /\ \E r \in {IF m = "spot"
                         THEN start_kline_socket(Broker, n, "BTCUSDT",
                                                 "listener", "15m")
                         ELSE start_kline_futures_socket(Broker, n, "BTCUSDT",
                                                 "listener", "15m")} :
                   Commit(r, "start_kline_socket", <<>>)

SubscribeMarkPrice ==
    LET n == IF "BTCUSDT" \in DOMAIN mark_price_sockets
             THEN Len(mark_price_sockets["BTCUSDT"]) ELSE 0
    IN  /\ n < MaxSockets
        /\ \E r \in {start_symbol_mark_price_socket(Broker, n, "BTCUSDT",
                                                    "listener")} :
               Commit(r, "start_symbol_mark_price_socket", <<>>)

UpdateKlines ==
    \E k \in KlineInputs, m \in MarketInputs :
        /\ Pending(klines_updated.spot, 1) + Pending(klines_updated.margin, 1)
               < MaxUpdates
        /\ \E r \in {update_klines(Broker, "BTCUSDT", "15m", k, m)} :
               Commit(r, "update_klines", <<>>)

UpdateMarkPrice ==
    \E r \in {update_mark_price(Broker, "BTCUSDT", MaxPrice)} :
        Commit(r, "update_mark_price", <<>>)

UpdateFundingRate ==
    \E p \in PremiumInputs :
        \E r \in {update_funding_rate(Broker, "BTCUSDT", p)} :
            Commit(r, "update_funding_rate", <<>>)

SendMktData ==
    \E r \in {send_mkt_data(Broker)} :
        Commit(r, "send_mkt_data", <<>>)

NextMarketData ==
    \/ SubscribeKlines
    \/ SubscribeMarkPrice
    \/ UpdateKlines
    \/ UpdateMarkPrice
    \/ UpdateFundingRate
    \/ SendMktData

SpecMarketData == Init /\ [][NextMarketData]_vars

\* the entries of delivered for one key
DeliveredFor(dlv, path) == SelectSeq(dlv, LAMBDA d : d.key = path)

\* the bar keys <<mkt, symbol, interval>> in the updated lists
DirtyKeys ==
    UNION {UNION {{<<m, klines_updated[m][k].key, klines_updated[m][k].val[j]>> :
                     j \in 1 .. Len(klines_updated[m][k].val)} :
                  k \in 1 .. Len(klines_updated[m])} :
           m \in MarketInputs}

\* C12: when one or several bar updates of a key (market, symbol, interval)
\* arrived before a send_mkt_data, that send_mkt_data invokes each
\* subscriber of the key exactly once, with the last value.
C12_UpdatesCoalesced ==
    [][Returned("send_mkt_data") =>
        \A path \in DirtyKeys :
            LET sockets == SocketsOf(kline_streaming_symbols[path[1]],
                                     path[2], path[3])
                got == DeliveredFor(delivered', path)
            IN  /\ Len(got) = Len(sockets)
                /\ \A j \in 1 .. Len(sockets) :
                      \E d \in 1 .. Len(got) :
                          got[d] = [key |-> path,
                                    clientID |-> sockets[j].clientID,
                                    callback |-> sockets[j].callback,
                                    data |-> klines[path[1]][path[2]][path[3]]]]_vars

\* C13: send_mkt_data with no dirty key (no updated bar, no updated mark
\* price) invokes no callback and changes no field of the broker; and
\* a send_mkt_data that returns leaves no dirty key, so that a second call
\* right after it delivers nothing.
C13_SendWithoutUpdateIsNoOp ==
    /\ (klines_updated = [spot |-> <<>>, margin |-> <<>>]
        /\ mark_price_updated = <<>>)
           => send_mkt_data(Broker) = Broker
    /\ LET r == send_mkt_data(Broker)
       IN  r.raised = "none" =>
               /\ r.klines_updated = [spot |-> <<>>, margin |-> <<>>]
               /\ r.mark_price_updated = <<>>
               /\ send_mkt_data(r) = r

\* a send_mkt_data has just delivered to a subscriber, nothing is dirty
\* and the sockets are still open
C13_DeliveredThenClean ==
    /\ last.op = "send_mkt_data" /\ last.raised = "none"
    /\ delivered # <<>>
    /\ klines_updated = [spot |-> <<>>, margin |-> <<>>]
    /\ mark_price_updated = <<>>
    /\ SocketsOf(kline_streaming_symbols.spot, "BTCUSDT", "15m") # <<>>

\* the outcome of a socket call is an error that left the registry as it was
Refused(r) ==
    /\ r.raised # "none"
    /\ r.kline_streaming_symbols = kline_streaming_symbols

\* C14: start_kline_socket and start_kline_futures_socket called with a
\* symbol outside the market's list or an interval outside the supported
\* list fail with an error and leave the registry unchanged, and so do
\* stop_kline_socket and stop_kline_futures_socket.
C14_InvalidSocketRefused ==
    \A c \in ClientInputs, cb \in CallbackInputs, i \in IntervalInputs :
        /\ \A s \in SpotSocketSymbols :
              (s \notin SPOT_SYMBOLS \/ i \notin INTERVALS) =>
                  /\ Refused(start_kline_socket(Broker, c, s, cb, i))
                  /\ Refused(stop_kline_socket(Broker, c, s, i))
        /\ \A s \in FuturesSocketSymbols :
              (s \notin MARGIN_SYMBOLS \/ i \notin INTERVALS) =>
                  /\ Refused(start_kline_futures_socket(Broker, c, s, cb, i))
                  /\ Refused(stop_kline_futures_socket(Broker, c, s, i))

\* a socket call has just been refused while sockets were open on both
\* markets
C14_RefusedWithOpenSockets ==
    /\ last.op \in {"start_kline_socket", "stop_kline_socket",
                    "start_kline_futures_socket", "stop_kline_futures_socket"}
    /\ last.raised = "ValueError"
    /\ SocketsOf(kline_streaming_symbols.spot, "BTCUSDT", "15m") # <<>>
    /\ SocketsOf(kline_streaming_symbols.margin, "BTCUSDT", "15m") # <<>>

(***************************************************************************)
(* Backtester.run_backtest: the trade ticks and the bars are two sequences *)
(* sorted by time (get_binance_trade_data and get_binance_kline_data sort  *)
(* them); the broker is the one TestStrategy.__init__ has left.            *)
(***************************************************************************)
MaxTicks == 3
MaxBars == 2
MaxTime == 2

\* the sequences of at most n elements of S in the order of their field
\* 'time'
SortedSeqs(S, n) ==
    {q \in UNION {[1 .. k -> S] : k \in 0 .. n} :
        \A i \in 1 .. Len(q) - 1 : q[i].time <= q[i + 1].time}

\* rows of the trade data: time, symbol, price
TradeRows == [time : 1 .. MaxTime, symbol : TickSymbols, price : {MaxPrice}]

\* rows of the kline data of BTCUSDT / 15m; 'time' is the close time, some
\* after the last trade
KlineRows == [time : 1 .. MaxTime + 1, symbol : {"BTCUSDT"},
              interval : {"15m"}]

\* Backtester.__init__ (time 0) and the first lines of run_backtest
BacktesterInputs ==
    [binance_trade_data : SortedSeqs(TradeRows, MaxTicks),
     kline_data : SortedSeqs(KlineRows, MaxBars),
     time : {0}, trade_num : {0}, kline_num : {0}, pc : {"loop"},
     calls : {<<>>}]

InitBacktest ==
    /\ Holds(AfterStrategyInit)
    /\ last = [op |-> "start_kline_socket", raised |-> "none", arg |-> <<>>]
    /\ backtester \in BacktesterInputs
    /\ account = [symbol |-> "none"]
    /\ futures = AfterFuturesConstruction

\* a call the backtester makes on the broker, at the time it makes it
Call(op, n, symbol) ==
    [op |-> op, n |-> n, symbol |-> symbol, time |-> backtester.time]

\* the conditions of the two inner loops
TradeDue_OnePerStep ==
    /\ backtester.trade_num < Len(backtester.binance_trade_data)
    /\ backtester.binance_trade_data[backtester.trade_num + 1].time
           <= backtester.time
    /\ IF backtester.calls = <<>> THEN TRUE
       ELSE backtester.calls[Len(backtester.calls)].op # "check_orders"

TradeDue ==
    /\ backtester.trade_num < Len(backtester.binance_trade_data)
    /\ backtester.binance_trade_data[backtester.trade_num + 1].time
           <= backtester.time

KlineDue_Always ==
    backtester.kline_num < Len(backtester.kline_data)

KlineDue ==
    /\ backtester.kline_num < Len(backtester.kline_data)
    /\ backtester.kline_data[backtester.kline_num + 1].time <= backtester.time

AtKlines_Early == backtester.pc \in {"trades", "klines"}

\* the trade loop is over
AtKlines ==
    \/ backtester.pc = "klines"
    \/ backtester.pc = "trades" /\ ~TradeDue

\* the outer loop is entered: self.time is the time of the next trade
BacktestSetTime ==
    /\ backtester.pc = "loop"
    /\ backtester.trade_num < Len(backtester.binance_trade_data)
    /\ backtester' =
           [backtester EXCEPT
              !.time = backtester.binance_trade_data[backtester.trade_num + 1].time,
              !.pc = "trades"]
    /\ UNCHANGED <<clientID, orderID, asset_balances, commissions, asks,
                   bids, mkt_orders, orders, trade_data,
                   kline_streaming_symbols, klines, klines_updated,
                   mark_price, funding_rates, mark_price_sockets,
                   mark_price_updated, logged_data, delivered, executions,
                   last, account,
                   futures>>

BacktestTrade_Catching ==
    /\ backtester.pc = "trades"
    /\ TradeDue
    /\ LET n == backtester.trade_num + 1
           row == backtester.binance_trade_data[n]
       IN  \E b1 \in {update_trade_data(Broker, row.symbol, row.price)} :
           \E r \in {check_orders(b1, row.symbol, "spot")} :
               /\ CommitBroker(r, "check_orders", row.symbol)
               /\ backtester' =
                      [backtester EXCEPT
                         !.calls = @ \o <<Call("update_trade_data", n,
                                              row.symbol),
                                          Call("check_orders", n,
                                               row.symbol)>>,
                         !.trade_num = n]
    /\ UNCHANGED <<account, futures>>

\* one pass of the trade loop: send_trade_data_to_binance, check_orders,
\* trade_num += 1
BacktestTrade ==
    /\ backtester.pc = "trades"
    /\ TradeDue
    /\ LET n == backtester.trade_num + 1
           row == backtester.binance_trade_data[n]
       IN  \E b1 \in {update_trade_data(Broker, row.symbol, row.price)} :
           \E r \in {check_orders(b1, row.symbol, "spot")} :
               /\ CommitBroker(r, "check_orders", row.symbol)
               /\ backtester' =
                      [backtester EXCEPT
                         !.calls = @ \o <<Call("update_trade_data", n,
                                              row.symbol),
                                          Call("check_orders", n,
                                               row.symbol)>>,
                         !.trade_num = IF r.raised = "none" THEN n ELSE @,
                         !.pc = IF r.raised = "none" THEN @ ELSE "raised"]
    /\ UNCHANGED <<account, futures>>

BacktestKline_SettingTime ==
    /\ AtKlines
    /\ KlineDue
    /\ LET n == backtester.kline_num + 1
           row == backtester.kline_data[n]
       IN  \E r \in {update_klines(Broker, row.symbol, row.interval, n,
                                   "spot")} :
               /\ CommitBroker(r, "update_klines", row.symbol)
               /\ backtester' =
                      [backtester EXCEPT
                         !.calls = Append(@, Call("update_klines", n,
                                                  row.symbol)),
                         !.kline_num = n,
                         !.time = row.time,
                         !.pc = "klines"]
    /\ UNCHANGED <<account, futures>>

\* one pass of the kline loop: kline_num += 1, send_kline_data_to_binance
BacktestKline ==
    /\ AtKlines
    /\ KlineDue
    /\ LET n == backtester.kline_num + 1
           row == backtester.kline_data[n]
       IN  \E r \in {update_klines(Broker, row.symbol, row.interval, n,
                                   "spot")} :
               /\ CommitBroker(r, "update_klines", row.symbol)
               /\ backtester' =
                      [backtester EXCEPT
                         !.calls = Append(@, Call("update_klines", n,
                                                  row.symbol)),
                         !.kline_num = n,
                         !.pc = "klines"]
    /\ UNCHANGED <<account, futures>>

\* the end of the outer loop's body: send_mkt_data
BacktestSend ==
    /\ AtKlines
    /\ ~KlineDue
    /\ \E r \in {send_mkt_data(Broker)} :
           /\ CommitBroker(r, "send_mkt_data", <<>>)
           /\ backtester' =
                  [backtester EXCEPT
                     !.calls = Append(@, Call("send_mkt_data", 0, "")),
                     !.pc = IF r.raised = "none" THEN "loop" ELSE "raised"]
    /\ UNCHANGED <<account, futures>>

BacktestReturn_Early ==
    /\ backtester.pc = "loop"
    /\ backtester' = [backtester EXCEPT !.pc = "returned"]
    /\ UNCHANGED <<clientID, orderID, asset_balances, commissions, asks,
                   bids, mkt_orders, orders, trade_data,
                   kline_streaming_symbols, klines, klines_updated,
                   mark_price, funding_rates, mark_price_sockets,
                   mark_price_updated, logged_data, delivered, executions,
                   last, account,
                   futures>>

\* the outer loop is left: return self.logger.give_log()
BacktestReturn ==
    /\ backtester.pc = "loop"
    /\ backtester.trade_num >= Len(backtester.binance_trade_data)
    /\ backtester' = [backtester EXCEPT !.pc = "returned"]
    /\ UNCHANGED <<clientID, orderID, asset_balances, commissions, asks,
                   bids, mkt_orders, orders, trade_data,
                   kline_streaming_symbols, klines, klines_updated,
                   mark_price, funding_rates, mark_price_sockets,
                   mark_price_updated, logged_data, delivered, executions,
                   last, account,
                   futures>>

NextBacktest ==
    \/ BacktestSetTime
    \/ BacktestTrade
    \/ BacktestKline
    \/ BacktestSend
    \/ BacktestReturn

SpecBacktest == InitBacktest /\ [][NextBacktest]_vars

\* run_backtest keeps running: the interpreter executes the next statement
SpecBacktestLive == SpecBacktest /\ WF_vars(NextBacktest)

\* the places of the calls of one method in the backtester's calls
CallsOf(op) ==
    {p \in 1 .. Len(backtester.calls) : backtester.calls[p].op = op}

\* the trade ticks applied so far, in the order of their application
AppliedTrades ==
    LET F[p \in 0 .. Len(backtester.calls)] ==
            IF p = 0 THEN <<>>
            ELSE IF backtester.calls[p].op = "update_trade_data"
            THEN Append(F[p - 1], backtester.calls[p].n)
            ELSE F[p - 1]
    IN  F[Len(backtester.calls)]

\* C15: within the driver step at time T every trade tick of timestamp T is
\* applied, in input order, each followed at once by the check_orders of
\* its own symbol; bars (those with close time <= T) are applied only after
\* all these ticks, and send_mkt_data is called once, at the end of the
\* step.
C15_StepOrder ==
    LET calls == backtester.calls
        trades == backtester.binance_trade_data
    IN  /\ \A p \in CallsOf("update_trade_data") :
              /\ trades[calls[p].n].time = calls[p].time
              /\ p < Len(calls)
              /\ calls[p + 1] = [op |-> "check_orders", n |-> calls[p].n,
                                 symbol |-> trades[calls[p].n].symbol,
                                 time |-> calls[p].time]
              /\ \A q \in CallsOf("update_trade_data") :
                    q < p => calls[q].n < calls[p].n
        /\ \A p \in CallsOf("check_orders") :
              p > 1 /\ calls[p - 1].op = "update_trade_data"
        /\ \A p \in CallsOf("update_klines") \cup CallsOf("send_mkt_data") :
              \A i \in 1 .. Len(trades) :
                  trades[i].time = calls[p].time =>
                      \E q \in CallsOf("update_trade_data") :
                          q < p /\ calls[q].n = i
        /\ \A p \in CallsOf("update_klines") :
              backtester.kline_data[calls[p].n].time <= calls[p].time
        /\ \A p \in CallsOf("send_mkt_data") :
              /\ \A q \in 1 .. Len(calls) :
                    calls[q].time = calls[p].time => q <= p
              /\ \A i \in 1 .. Len(backtester.kline_data) :
                    backtester.kline_data[i].time <= calls[p].time =>
                        \E q \in CallsOf("update_klines") :
                            q < p /\ calls[q].n = i
        /\ (backtester.pc \in {"loop", "returned"} /\ calls # <<>>) =>
               calls[Len(calls)].op = "send_mkt_data"

\* a run has returned in which two ticks of one timestamp, on two symbols,
\* were followed by a bar of that step
C15_TwoTicksThenBar ==
    /\ backtester.pc = "returned"
    /\ \E p \in CallsOf("update_klines") :
          /\ p > 4
          /\ backtester.calls[p - 4].op = "update_trade_data"
          /\ backtester.calls[p - 2].op = "update_trade_data"
          /\ backtester.calls[p - 4].symbol # backtester.calls[p - 2].symbol
          /\ backtester.calls[p - 4].time = backtester.calls[p].time

\* C16: run_backtest terminates on every finite time-sorted input (it
\* returns, or an error leaves it), and when it returns every trade tick
\* has been applied exactly once, in input order.
C16_TerminatesWithAllTicksApplied ==
    /\ <>(backtester.pc \in {"returned", "raised"})
    /\ [](backtester.pc = "returned" =>
             AppliedTrades = [i \in 1 .. Len(backtester.binance_trade_data)
                                 |-> i])

\* a run over the longest input has returned
C16_ReturnedAfterAllTicks ==
    /\ backtester.pc = "returned"
    /\ Len(backtester.binance_trade_data) = MaxTicks
    /\ Len(AppliedTrades) = MaxTicks

\* C17: when run_backtest returns no unconsumed event remains in either
\* sequence: every bar and every tick has been applied.
C17_AllEventsConsumed ==
    backtester.pc = "returned" =>
        /\ backtester.trade_num = Len(backtester.binance_trade_data)
        /\ backtester.kline_num = Len(backtester.kline_data)
        /\ Cardinality(CallsOf("update_klines")) = Len(backtester.kline_data)

\* C18: the logs keep what was appended: when run_backtest returns,
\* BINANCE_EXORDERS holds one row per execution, BINANCE_ORDERS one per
\* accepted order and ASSETS one per check_orders pass, also when the
\* first append found no log.
C18_LogsAccumulate ==
    backtester.pc = "returned" =>
        /\ RowsOf(logged_data, "BINANCE_EXORDERS") = Len(executions)
        /\ RowsOf(logged_data, "BINANCE_ORDERS") = Cardinality(DOMAIN orders)
        /\ RowsOf(logged_data, "ASSETS") = Cardinality(CallsOf("check_orders"))

(***************************************************************************)
(* MarginAccountUSDM (src/src/binance_futures.py).  Prices and sizes are   *)
(* whole numbers; the wallet and every amount are counted in 1/MoneyScale, *)
(* a unit in which main_rate and 1/leverage are whole, so that the         *)
(* arithmetic of the getters is exact.                                     *)
(***************************************************************************)
MaxLeverage == 2
MaxSize == 1
MaxMark == 2
MaxWallet == 2

\* main_rate = MainRateNum / MainRateDen
MainRateNum == 1
MainRateDen == 2

RECURSIVE Factorial(_)
Factorial(n) == IF n = 0 THEN 1 ELSE n * Factorial(n - 1)

MoneyScale == MainRateDen * Factorial(MaxLeverage)

Abs(x) == IF x < 0 THEN 0 - x ELSE x

\* MarginAccountUSDM.__init__; op, arg, raised and ret record the last call
MarginAccountUSDM(symbol, size, entry_price, leverage, mark_price_, wallet) ==
    [symbol |-> symbol, size |-> size, entry_price |-> entry_price,
     leverage |-> leverage, mark_price |-> mark_price_, wallet |-> wallet,
     op |-> "__init__", arg |-> 0, raised |-> "none", ret |-> "None"]

\* get_maintenance_margin: mark_price * size * main_rate
get_maintenance_margin(a) ==
    a.mark_price * a.size * MainRateNum * (MoneyScale \div MainRateDen)

\* get_max_removable
get_max_removable(a) ==
    LET min_comp ==
            Min({a.wallet - get_maintenance_margin(a),
                 a.wallet + a.size * (a.mark_price - a.entry_price) * MoneyScale
                     - a.mark_price * Abs(a.size) * (MoneyScale \div a.leverage)})
    IN  Max({min_comp, 0})

\* get_max_removable of the MarginAccountUSDM of _binance.py: the last
\* term is multiplied by the leverage
binance_get_max_removable(a) ==
    LET min_comp ==
            Min({a.wallet - get_maintenance_margin(a),
                 a.wallet + a.size * (a.mark_price - a.entry_price) * MoneyScale
                     - a.mark_price * Abs(a.size) * a.leverage * MoneyScale})
    IN  Max({min_comp, 0})

\* the outcome of a call on the account
Outcome(a, op, arg, raised, ret) ==
    [a EXCEPT !.op = op, !.arg = arg, !.raised = raised, !.ret = ret]

\* set_mark_price
set_mark_price(a, mark_price_) ==
    Outcome([a EXCEPT !.mark_price = mark_price_], "set_mark_price",
            mark_price_, "none", "None")

\* set_leverage
set_leverage(a, leverage) ==
    IF a.size # 0 /\ a.leverage > leverage
    THEN Outcome(a, "set_leverage", leverage, "none", "False")
    ELSE Outcome([a EXCEPT !.leverage = leverage], "set_leverage", leverage,
                 "none", "True")

\* add_to_wallet
add_to_wallet(a, amount) ==
    Outcome([a EXCEPT !.wallet = @ + amount], "add_to_wallet", amount,
            "none", "None")

remove_from_wallet_Unchecked(a, amount) ==
    Outcome([a EXCEPT !.wallet = @ - amount], "remove_from_wallet", amount,
            "none", "None")

\* remove_from_wallet
remove_from_wallet(a, amount) ==
    IF amount > get_max_removable(a)
    THEN Outcome(a, "remove_from_wallet", amount, "ValueError", "None")
    ELSE Outcome([a EXCEPT !.wallet = @ - amount], "remove_from_wallet",
                 amount, "none", "None")

\* the accounts opened: flat, long or short
AccountInputs ==
    {MarginAccountUSDM("BTCUSDT", size, entry_price, leverage, mark_price_,
                       wallet * MoneyScale) :
        size \in (0 - MaxSize) .. MaxSize, entry_price \in 1 .. MaxMark,
        leverage \in 1 .. MaxLeverage, mark_price_ \in 1 .. MaxMark,
        wallet \in 0 .. MaxWallet}

\* amounts taken out of the wallet, and the amount paid in (1.0)
WalletAmounts == 0 .. MaxWallet * MoneyScale

DepositAmounts == {MoneyScale}

InitMargin ==
    /\ Holds(AfterConstruction)
    /\ last = [op |-> "init", raised |-> "none", arg |-> <<>>]
    /\ backtester = [pc |-> "idle"]
    /\ account \in AccountInputs
    /\ futures = AfterFuturesConstruction

\* a call on the account leaves the broker as it is
BrokerUnchanged ==
    UNCHANGED <<clientID, orderID, asset_balances, commissions, asks, bids,
                mkt_orders, orders, trade_data, kline_streaming_symbols,
                klines, klines_updated, mark_price, funding_rates,
                mark_price_sockets, mark_price_updated, logged_data,
                delivered, executions, last, backtester, futures>>

SetMarkPrice ==
    /\ \E m \in 1 .. MaxMark : account' = set_mark_price(account, m)
    /\ BrokerUnchanged

SetLeverage ==
    /\ \E l \in 1 .. MaxLeverage : account' = set_leverage(account, l)
    /\ BrokerUnchanged

AddToWallet ==
    /\ \E amount \in DepositAmounts :
          /\ account.wallet + amount <= MaxWallet * MoneyScale
          /\ account' = add_to_wallet(account, amount)
    /\ BrokerUnchanged

RemoveFromWallet ==
    /\ \E amount \in WalletAmounts :
          account' = remove_from_wallet(account, amount)
    /\ BrokerUnchanged

NextMargin ==
    \/ SetMarkPrice
    \/ SetLeverage
    \/ AddToWallet
    \/ RemoveFromWallet

SpecMargin == InitMargin /\ [][NextMargin]_vars

\* the fields of the account proper
FieldsOf(a) ==
    [f \in {"symbol", "size", "entry_price", "leverage", "mark_price",
            "wallet"} |-> a[f]]

\* C19: set_leverage(new) on an account with size # 0 returns True and sets
\* the leverage when new is lower than the current leverage, and returns
\* False leaving the leverage unchanged when new is higher; with size = 0
\* it always returns True and sets the leverage.
C19_LeverageLoweredNotRaised ==
    [][account'.op = "set_leverage" =>
        LET new == account'.arg
            applied == /\ account'.ret = "True"
                       /\ account'.leverage = new
            rejected == /\ account'.ret = "False"
                        /\ FieldsOf(account') = FieldsOf(account)
        IN  /\ (account.size # 0 /\ new < account.leverage) => applied
            /\ (account.size # 0 /\ new > account.leverage) => rejected
            /\ account.size = 0 => applied]_vars

\* C20: remove_from_wallet(amount) with amount > get_max_removable() raises
\* and leaves the wallet and every other field unchanged; with amount <=
\* get_max_removable() it decreases the wallet by exactly amount.
C20_RemovalWithinMaxRemovable ==
    [][account'.op = "remove_from_wallet" =>
        LET amount == account'.arg
        IN  IF amount > get_max_removable(account)
            THEN /\ account'.raised = "ValueError"
                 /\ FieldsOf(account') = FieldsOf(account)
            ELSE /\ account'.raised = "none"
                 /\ account'.wallet = account.wallet - amount
                 /\ FieldsOf(account') =
                        [FieldsOf(account) EXCEPT !.wallet = @ - amount]]_vars

\* a removal from a funded account with an open position has just been
\* refused
C20_RemovalRefused ==
    /\ account.op = "remove_from_wallet"
    /\ account.raised = "ValueError"
    /\ account.size # 0
    /\ account.wallet > 0
    /\ account.arg <= account.wallet
(***************************************************************************)
(* The ledger called directly: change_total_asset_balance,                 *)
(* change_locked_asset_balance and add_account_balance on the accounts of  *)
(* the registered clients and on one that was never registered.            *)
(***************************************************************************)
\* changes applied to a total or a locked amount
DeltaInputs == {-1, 1}

ChangeTotalAssetBalance ==
    \E c \in ClientInputs, a \in AssetInputs, d \in DeltaInputs :
        /\ TotalOf(asset_balances, c, a) + d <= MaxBalance
        /\ \E r \in {change_total_asset_balance(Broker, c, a, d)} :
               Commit(r, "change_total_asset_balance",
                      [clientID |-> c, asset |-> a, change |-> d])

ChangeLockedAssetBalance ==
    \E c \in ClientInputs, a \in AssetInputs, d \in DeltaInputs :
        /\ LockedOf(asset_balances, c, a) + d <= MaxBalance
        /\ \E r \in {change_locked_asset_balance(Broker, c, a, d)} :
               Commit(r, "change_locked_asset_balance",
                      [clientID |-> c, asset |-> a, change |-> d])

NextLedger ==
    \/ GetClient
    \/ AddAccountBalance
    \/ ChangeTotalAssetBalance
    \/ ChangeLockedAssetBalance

SpecLedger == Init /\ [][NextLedger]_vars

\* the rejections of a ledger call that the contract lists: an asset
\* outside the asset list, an account never registered through get_client
UnknownAssetOrAccount(c, a) == a \notin ASSETS \/ c \notin 0 .. clientID - 1

\* a call that raised left every balance as it was
LedgerKept(r) == r.raised # "none" => r.asset_balances = asset_balances

\* C21: a rejected ledger call leaves the ledger unchanged, and a ledger
\* call is rejected only for an unknown asset or account, for a negative
\* delta that would bring total / locked below zero, or (add_account_balance)
\* for a negative amount
C21_LedgerRejections ==
    \A c \in ClientInputs, a \in AssetInputs, d \in DeltaInputs \cup AmountInputs :
        /\ \E r \in {change_total_asset_balance(Broker, c, a, d)} :
               /\ LedgerKept(r)
               /\ r.raised # "none" <=>
                      \/ UnknownAssetOrAccount(c, a)
                      \/ d < 0 /\ TotalOf(asset_balances, c, a) + d < 0
        /\ \E r \in {change_locked_asset_balance(Broker, c, a, d)} :
               /\ LedgerKept(r)
               /\ r.raised # "none" <=>
                      \/ UnknownAssetOrAccount(c, a)
                      \/ d < 0 /\ LockedOf(asset_balances, c, a) + d < 0
        /\ \E r \in {add_account_balance(Broker, c, a, d)} :
               /\ LedgerKept(r)
               /\ r.raised # "none" <=> (UnknownAssetOrAccount(c, a) \/ d < 0)
\* C22: over a run on time-sorted input simulated time never decreases, and
\* it changes only where run_backtest assigns it at the head of the outer
\* loop: the steps that call the broker (ledger, matching, market data,
\* logger) leave it as it was
C22_TimeMonotoneDriverOnly ==
    [][/\ backtester'.time >= backtester.time
       /\ backtester'.time # backtester.time =>
              /\ backtester.pc = "loop"
              /\ backtester'.pc = "trades"
              /\ backtester'.time =
                     backtester.binance_trade_data[backtester.trade_num + 1].time
              /\ UNCHANGED <<asset_balances, orders, klines, logged_data,
                             executions, last>>]_vars

\* a run whose time advanced twice, ticks matched and a bar applied
C22_TimeAdvancedTwice ==
    /\ backtester.pc = "returned"
    /\ backtester.time = MaxTime
    /\ \E p \in CallsOf("check_orders") : backtester.calls[p].time < MaxTime
    /\ \E p \in CallsOf("check_orders") : backtester.calls[p].time = MaxTime
    /\ CallsOf("update_klines") # {}
\* no entry of the balances has a negative total or a negative locked
NonNegative(ab) ==
    \A c \in DOMAIN ab : \A a \in DOMAIN ab[c] :
        ab[c][a].total >= 0 /\ ab[c][a].locked >= 0

\* C23: in every reachable state every balance entry has total >= 0 and
\* locked >= 0, each taken separately: after the submissions, fills and
\* cancels that led to the state, and after any credit or any change of a
\* total or a locked amount made on one of its accounts (by one unit up or
\* down, or down by the largest balance)
C23_BalancesNonNegative ==
    /\ NonNegative(asset_balances)
    /\ \A c \in DOMAIN asset_balances, a \in AssetInputs,
          d \in DeltaInputs \cup {-MaxBalance} :
           /\ NonNegative(add_account_balance(Broker, c, a, d).asset_balances)
           /\ NonNegative(change_total_asset_balance(Broker, c, a, d).asset_balances)
           /\ NonNegative(change_locked_asset_balance(Broker, c, a, d).asset_balances)

\* a fill has debited a total down to exactly zero and an order was
\* cancelled: any further debit of that asset has to be refused
C23_TotalAtZeroAfterFill ==
    /\ Len(executions) > 0
    /\ \E c \in DOMAIN asset_balances : \E a \in DOMAIN asset_balances[c] :
           /\ asset_balances[c][a].total = 0
           /\ change_total_asset_balance(Broker, c, a, -1).raised = "ValueError"
    /\ last.op = "close_order"
    /\ last.raised = "none"
\* the ids under which an order is pending (resting in a book or queued)
PendingIds == {o.orderID : o \in PendingOrders}

\* C24: once close_order(orderID) has succeeded the order is never executed,
\* whatever reference prices and check_orders follow. Step by step: a
\* close_order that returns leaves nothing pending under the id it was given;
\* an id that is not pending never becomes pending again, the only id that
\* can become pending being the next one to issue; and every execution a
\* step adds (callback invoked, balances changed) is of an order that was
\* pending when the step began.
C24_ClosedNeverExecuted ==
    [][/\ Returned("close_order") => last'.arg \notin PendingIds'
       /\ PendingIds' \subseteq PendingIds \cup {orderID}
       /\ \A j \in 1 .. Len(NewExecutions) :
              NewExecutions[j].orderID \in PendingIds
       /\ asset_balances' # asset_balances /\ last'.op = "check_orders" =>
              PendingIds # {}]_vars

\* an order was closed while it rested, then the reference price crossed its
\* limit and check_orders ran without executing anything
C24_CrossedAfterClose ==
    /\ last.op = "check_orders" /\ last.raised = "none"
    /\ executions = <<>>
    /\ \E oid \in DOMAIN orders :
           /\ orders[oid].type_ = TYPE_LMT
           /\ orders[oid].side = SIDE_ASK
           /\ orders[oid].symbol = last.arg
           /\ PendingOrders = {}
           /\ IntOf(orders[oid].lmt_price) <= trade_data[last.arg]
(***************************************************************************)
(* Strategies that close their socket from inside their bar callback:      *)
(* clients open spot bar sockets of BTCUSDT / 15m with a callback that     *)
(* only listens or with one that unsubscribes, bars arrive and             *)
(* send_mkt_data publishes them.                                           *)
(***************************************************************************)
SubscriberCallbacks == {"listener", "unsubscriber"}

SubscribeSpot ==
    \E c \in 0 .. MaxSockets - 1, cb \in SubscriberCallbacks :
        LET sockets == SocketsOf(kline_streaming_symbols.spot, "BTCUSDT", "15m")
        IN  /\ \A i \in 1 .. Len(sockets) : sockets[i].clientID # c
            /\ \E r \in {start_kline_socket(Broker, c, "BTCUSDT", cb, "15m")} :
                   Commit(r, "start_kline_socket", <<>>)

UpdateSpotKlines ==
    \E k \in KlineInputs :
        /\ Pending(klines_updated.spot, 1) < MaxUpdates
        /\ \E r \in {update_klines(Broker, "BTCUSDT", "15m", k, "spot")} :
               Commit(r, "update_klines", <<>>)

NextUnsubscribe ==
    \/ SubscribeSpot
    \/ UpdateSpotKlines
    \/ SendMktData

SpecUnsubscribe == Init /\ [][NextUnsubscribe]_vars

\* C25: a send_mkt_data that returns has delivered the cached value of every
\* dirty spot bar key to every subscriber that was subscribed to the key
\* when the delivery began, also when a callback closes its own socket
\* during the delivery
C25_NoSubscriberSkipped ==
    [][Returned("send_mkt_data") =>
          \A path \in DirtyKeys :
              LET sockets == SocketsOf(kline_streaming_symbols[path[1]],
                                       path[2], path[3])
              IN  \A i \in 1 .. Len(sockets) :
                      \E j \in 1 .. Len(delivered') :
                          /\ delivered'[j].key = path
                          /\ delivered'[j].clientID = sockets[i].clientID
                          /\ delivered'[j].data =
                                 klines[path[1]][path[2]][path[3]]]_vars
\* the step applies a bar: run_backtest calls update_klines
AppliesBar ==
    /\ Len(backtester'.calls) = Len(backtester.calls) + 1
    /\ backtester'.calls[Len(backtester'.calls)].op = "update_klines"

\* C26: a bar is applied only when simulated time has reached its close
\* time, and applying it only updates the bar cache and the dirty set: no
\* matching runs (no execution, no callback), and no order, book or balance
\* changes
C26_BarsDueAndCacheOnly ==
    [][AppliesBar =>
          LET call == backtester'.calls[Len(backtester'.calls)]
              row == backtester.kline_data[call.n]
          IN  /\ row.time <= backtester.time
              /\ call.time = backtester.time
              /\ backtester'.time = backtester.time
              /\ klines' = [klines EXCEPT !.spot =
                               SetKey(@, row.symbol,
                                      SetKey(IF row.symbol \in DOMAIN @
                                             THEN @[row.symbol] ELSE EmptyDict,
                                             row.interval, call.n))]
              /\ row.interval \in
                     {Get(klines_updated'.spot, row.symbol)[j] :
                          j \in 1 .. Len(Get(klines_updated'.spot, row.symbol))}
              /\ delivered' = <<>>
              /\ UNCHANGED <<asset_balances, commissions, asks, bids,
                             mkt_orders, orders, orderID, executions,
                             trade_data, kline_streaming_symbols,
                             logged_data, mark_price, funding_rates>>]_vars

\* a bar closing at the current time has just been applied while an order
\* of the strategy rests in the book
C26_BarAppliedWithRestingOrder ==
    /\ backtester.pc = "klines"
    /\ backtester.kline_data[backtester.kline_num].time = backtester.time
    /\ last.op = "update_klines"
    /\ PendingOrders # {}
(***************************************************************************)
(* run_backtest over trade data that holds ticks of a symbol the broker    *)
(* does not list: check_orders raises for such a tick (get_price).         *)
(***************************************************************************)
UnlistedTickSymbols == {"BTCUSDT", "BTCEUR"}

UnlistedTradeRows ==
    [time : 1 .. MaxTime, symbol : UnlistedTickSymbols, price : {MaxPrice}]

InitBacktestUnlisted ==
    /\ Holds(AfterStrategyInit)
    /\ last = [op |-> "start_kline_socket", raised |-> "none", arg |-> <<>>]
    /\ backtester \in
           [binance_trade_data : SortedSeqs(UnlistedTradeRows, MaxTicks),
            kline_data : SortedSeqs(KlineRows, MaxBars),
            time : {0}, trade_num : {0}, kline_num : {0}, pc : {"loop"},
            calls : {<<>>}]
    /\ account = [symbol |-> "none"]
    /\ futures = AfterFuturesConstruction

SpecBacktestUnlisted == InitBacktestUnlisted /\ [][NextBacktest]_vars

\* C27: an error raised by the broker (ledger, matching) while run_backtest
\* applies a tick, a bar or a publish is not caught: run_backtest ends with
\* that error at once, and no further tick, bar or publish is applied after
\* it (nothing changes any more, and run_backtest does not return)
C27_ErrorsPropagate ==
    [][/\ last'.raised # "none" /\ backtester'.calls # backtester.calls =>
              backtester'.pc = "raised"
       /\ backtester.pc = "raised" => UNCHANGED vars
       /\ backtester'.pc = "raised" /\ backtester.pc # "raised" =>
              /\ last'.raised # "none"
              /\ backtester'.trade_num = backtester.trade_num
              /\ backtester'.kline_num = backtester.kline_num]_vars

\* run_backtest has ended with the error of check_orders for a tick while
\* a tick, a bar and the publish of that time were still to be applied
C27_RaisedWithEventsLeft ==
    /\ backtester.pc = "raised"
    /\ last.op = "check_orders"
    /\ last.raised = "ValueError"
    /\ backtester.trade_num + 1 < Len(backtester.binance_trade_data)
    /\ KlineDue
    /\ CallsOf("send_mkt_data") # {}
\* C28: the price levels check_orders selects are those whose exact limit
\* price is on the right side of the reference price, for prices that are
\* not whole numbers too: an ask level if and only if its price <= the
\* reference price, a bid level if and only if its price >= it
C28_ExactPriceSelection ==
    \A s \in DOMAIN trade_data \cap SPOT_SYMBOLS :
        /\ Keys(get_keys_below(asks[s], trade_data[s])) =
               {k \in Keys(asks[s]) : k <= trade_data[s]}
        /\ Keys(get_keys_above(bids[s], trade_data[s])) =
               {k \in Keys(bids[s]) : k >= trade_data[s]}
\* C29: get_max_removable is max(0, min(wallet - maintenance_margin,
\* wallet + pnl - mark_price * |size| / leverage)), and the
\* MarginAccountUSDM of _binance.py returns the same value as the one of
\* binance_futures.py for every account
C29_MaxRemovableAgrees ==
    /\ get_max_removable(account) =
           Max({0, Min({account.wallet - get_maintenance_margin(account),
                        account.wallet
                            + (account.mark_price - account.entry_price)
                                  * account.size * MoneyScale
                            - (account.mark_price * Abs(account.size)
                                   * MoneyScale) \div account.leverage})})
    /\ binance_get_max_removable(account) = get_max_removable(account)
(***************************************************************************)
(* Funding rates from premium rates of any precision: premiums around the  *)
(* two ends of the clamp, with a ninth decimal place (the half-way digit   *)
(* is left out: a float does not hold it exactly).                         *)
(***************************************************************************)
NinthDigits == (0 .. RoundUnit - 1) \ {RoundUnit \div 2}

FinePremiumInputs ==
    {sign * (k * INTEREST_RATE + d) :
        sign \in {-1, 1}, k \in {0, MaxPremium}, d \in NinthDigits}

UpdateFineFundingRate ==
    \E p \in FinePremiumInputs :
        \E r \in {update_funding_rate(Broker, "BTCUSDT", p)} :
            Commit(r, "update_funding_rate", p)

NextFunding ==
    \/ SubscribeMarkPrice
    \/ UpdateMarkPrice
    \/ UpdateFineFundingRate
    \/ SendMktData

SpecFunding == Init /\ [][NextFunding]_vars

\* premium + clamp(INTEREST_RATE - premium, -0.0005, +0.0005)
ClampedRate(premium) ==
    premium + clamp(INTEREST_RATE - premium, 0 - ClampBound, ClampBound)

\* the symbol is in the dirty list of the mark-price feed exactly once after
\* the step, and the list is otherwise as it was
DirtyOnce(symbol) ==
    /\ Cardinality({i \in 1 .. Len(mark_price_updated') :
                       mark_price_updated'[i] = symbol}) = 1
    /\ \/ mark_price_updated' = mark_price_updated
       \/ mark_price_updated' = Append(mark_price_updated, symbol)

\* C30 as stated: update_funding_rate(symbol, premium) stores exactly
\* premium + clamp(INTEREST_RATE - premium, -0.0005, +0.0005), that is
\* INTEREST_RATE when |INTEREST_RATE - premium| <= 0.0005, premium + 0.0005
\* when the premium is further below and premium - 0.0005 when it is further
\* above, and the symbol is dirty for the mark-price feed once
C30_StoredUnrounded ==
    [][Returned("update_funding_rate") =>
          LET premium == last'.arg
              stored == funding_rates'["BTCUSDT"]
          IN  /\ stored = ClampedRate(premium)
              /\ Abs(INTEREST_RATE - premium) <= ClampBound =>
                     stored = INTEREST_RATE
              /\ premium < INTEREST_RATE - ClampBound =>
                     stored = premium + ClampBound
              /\ premium > INTEREST_RATE + ClampBound =>
                     stored = premium - ClampBound
              /\ DirtyOnce("BTCUSDT")]_vars

\* C30 amended: the stored rate is premium + clamp(INTEREST_RATE - premium,
\* -0.0005, +0.0005) rounded to 8 decimal places: a multiple of 0.00000001
\* within half of it of INTEREST_RATE, premium + 0.0005 or premium - 0.0005
\* in the three cases, and the symbol is dirty for the mark-price feed once
C30_StoredRounded ==
    [][Returned("update_funding_rate") =>
          LET premium == last'.arg
              stored == funding_rates'["BTCUSDT"]
              exact == IF Abs(INTEREST_RATE - premium) <= ClampBound
                       THEN INTEREST_RATE
                       ELSE IF premium < INTEREST_RATE - ClampBound
                       THEN premium + ClampBound
                       ELSE premium - ClampBound
          IN  /\ exact = ClampedRate(premium)
              /\ stored % RoundUnit = 0
              /\ 2 * Abs(stored - exact) <= RoundUnit
              /\ Abs(INTEREST_RATE - premium) <= ClampBound =>
                     stored = INTEREST_RATE
              /\ DirtyOnce("BTCUSDT")]_vars

\* a premium above the clamp with a ninth decimal place was stored rounded,
\* after an earlier update had already marked the symbol
C30_RoundedAboveClamp ==
    /\ last.op = "update_funding_rate"
    /\ last.raised = "none"
    /\ last.arg > INTEREST_RATE + ClampBound
    /\ last.arg % RoundUnit # 0
    /\ funding_rates["BTCUSDT"] # last.arg - ClampBound
    /\ mark_price_updated = <<"BTCUSDT">>
    /\ "BTCUSDT" \in DOMAIN mark_price
(***************************************************************************)
(* The futures broker on its own: sockets, bar updates, send_market_data   *)
(* and orders.                                                             *)
(***************************************************************************)
FuturesSides == {BINANCE_SIDE_ASK, BINANCE_SIDE_BID}

\* the two order types and one that is not an order type
FuturesTypes == {BINANCE_TYPE_MKT, BINANCE_TYPE_LMT, 4}

FuturesIntervals == {"1m", "2m"}

\* number of entries in the updated lists
FuturesUpdates(fb) ==
    LET RECURSIVE Sum(_)
        Sum(i) == IF i > Len(fb.kline_data_updated) THEN 0
                  ELSE Len(fb.kline_data_updated[i].val) + Sum(i + 1)
    IN  Sum(1)

\* number of sockets open
FuturesSockets(fb) ==
    LET RECURSIVE Sum(_)
        Sum(S) == IF S = {} THEN 0
                  ELSE LET x == CHOOSE y \in S : TRUE
                       IN  Len(fb.kline_sockets[x[1]][x[2]]) + Sum(S \ {x})
    IN  Sum({<<s, i>> \in FUTURES_SYMBOLS \X INTERVALS :
                /\ s \in DOMAIN fb.kline_sockets
                /\ i \in DOMAIN fb.kline_sockets[s]})

\* a call on the futures broker leaves the spot broker, the backtester and
\* the margin account as they are
OnlyFutures ==
    UNCHANGED <<clientID, orderID, asset_balances, commissions, asks, bids,
                mkt_orders, orders, trade_data, kline_streaming_symbols,
                klines, klines_updated, mark_price, funding_rates,
                mark_price_sockets, mark_price_updated, logged_data,
                delivered, executions, last, backtester, account>>

FuturesStartKlineSocket ==
    /\ FuturesSockets(futures) < MaxSockets
    /\ \E c \in 1 .. MaxSockets, i \in FuturesIntervals :
          futures' = futures_start_kline_futures_socket(
                         futures, c, "listener", "BTCUSDT", i)
    /\ OnlyFutures

FuturesUpdateKlineData ==
    /\ FuturesUpdates(futures) < MaxUpdates
    /\ \E i \in FuturesIntervals, k \in KlineInputs :
          futures' = update_kline_data(futures, "BTCUSDT", i, k)
    /\ OnlyFutures

FuturesSendMarketData ==
    /\ futures' = send_market_data(futures)
    /\ OnlyFutures

FuturesCreateOrder ==
    /\ futures.orderID < MaxOrders
    /\ \E side \in FuturesSides, type_ \in FuturesTypes, price \in 1 .. MaxPrice :
          futures' = futures_create_order(futures, 1, "listener", "BTCUSDT",
                                          side, type_, 1, price)
    /\ OnlyFutures

NextFutures ==
    \/ FuturesStartKlineSocket
    \/ FuturesUpdateKlineData
    \/ FuturesSendMarketData
    \/ FuturesCreateOrder

SpecFutures == Init /\ [][NextFutures]_vars

\* C31: send_market_data delivers each dirty (symbol, interval) to its
\* subscribers and then clears the dirty set: after a send_market_data call
\* nothing is left in kline_data_updated, and a send_market_data that follows
\* it with no update in between invokes no callback, so that a bar update is
\* delivered by one call only
C31_DeliveredOnceThenClean ==
    (futures.op = "send_market_data" /\ futures.raised = "none") =>
        /\ futures.kline_data_updated = <<>>
        /\ send_market_data(futures).delivered = <<>>

\* C38: every order futures_create_order accepted (recorded in orders) is
\* held in exactly one pending structure: market_orders for a market order,
\* bids[symbol][price] for a limit bid, asks[symbol][price] for a limit ask
FuturesLevel(book, o) ==
    IF o.symbol \in DOMAIN book /\ o.price \in DOMAIN book[o.symbol]
    THEN book[o.symbol][o.price] ELSE <<>>

C38_HeldInOneStructure ==
    \A id \in DOMAIN futures.orders :
        LET o == futures.orders[id]
            inMarket == InList(futures.market_orders, o)
            inBids == InList(FuturesLevel(futures.bids, o), o)
            inAsks == InList(FuturesLevel(futures.asks, o), o)
        IN  /\ inMarket <=> o.type_ = BINANCE_TYPE_MKT
            /\ inBids <=> (o.type_ = BINANCE_TYPE_LMT
                           /\ o.side = BINANCE_SIDE_BID)
            /\ inAsks <=> (o.type_ = BINANCE_TYPE_LMT
                           /\ o.side = BINANCE_SIDE_ASK)

\* the pending market order a new execution record belongs to, if any
MarketOrderOf(execution) ==
    {mkt_orders[i] : i \in {k \in 1 .. Len(mkt_orders) :
                               mkt_orders[k].orderID = execution.orderID}}

\* C32: a pending market order is executed only by a check_orders call for
\* its own symbol and is priced at that symbol's reference price; a
\* check_orders for another symbol (the one a tick for another symbol
\* triggers) leaves it pending and never prices it
C32_MarketOrderOwnSymbol ==
    [][\A j \in 1 .. Len(NewExecutions) :
          MarketOrderOf(NewExecutions[j]) # {} =>
              /\ last'.op = "check_orders"
              /\ Returned("check_orders") =>
                     /\ last'.arg = NewExecutions[j].symbol
                     /\ NewExecutions[j].symbol \in DOMAIN trade_data
                     /\ NewExecutions[j].price =
                            trade_data[NewExecutions[j].symbol]]_vars

\* the execution records handed to the callback of order oid so far
CallbacksOf(oid) ==
    {j \in 1 .. Len(executions) : executions[j].orderID = oid}

\* C33: over any run the completion callback of each accepted order is
\* invoked at most once (no order is filled twice)
C33_CallbackAtMostOnce ==
    \A oid \in 0 .. orderID : Cardinality(CallbacksOf(oid)) <= 1

\* the send_mkt_data calls the backtester has made so far
SendCalls == {p \in 1 .. Len(backtester.calls) :
                 backtester.calls[p].op = "send_mkt_data"}

\* C34: an order the strategy submits from its bar callback during the
\* send_mkt_data of simulated time T is never executed at time T.  Orders
\* are submitted only by a send_mkt_data step, which executes nothing; and
\* a step that executes orders is the check_orders of the trade tick being
\* applied, whose timestamp is the simulated time and is strictly later
\* than the time of every send_mkt_data made so far, and it fills at that
\* tick's price
C34_FilledOnlyByLaterTick ==
    [][/\ orderID' # orderID =>
              /\ last'.op = "send_mkt_data"
              /\ backtester'.calls =
                     Append(backtester.calls, Call("send_mkt_data", 0, ""))
              /\ executions' = executions
       /\ executions' # executions =>
              LET row == backtester.binance_trade_data[backtester.trade_num + 1]
              IN  /\ last'.op = "check_orders"
                  /\ backtester.pc = "trades"
                  /\ row.time = backtester.time
                  /\ backtester'.time = backtester.time
                  /\ \A p \in SendCalls :
                         backtester.calls[p].time < backtester.time
                  /\ \A j \in 1 .. Len(NewExecutions) :
                         /\ NewExecutions[j].orderID < orderID
                         /\ NewExecutions[j].symbol = row.symbol
                         /\ NewExecutions[j].price = row.price]_vars

\* a run has returned in which the order submitted in the send_mkt_data of
\* the first time step was filled by the tick of the second
C34_FilledAtNextTick ==
    /\ backtester.pc = "returned"
    /\ Len(executions) > 0
    /\ \E p \in SendCalls :
           /\ backtester.calls[p].time = 1
           /\ \E q \in p + 1 .. Len(backtester.calls) :
                  /\ backtester.calls[q].op = "check_orders"
                  /\ backtester.calls[q].time = MaxTime

\* C35: a fill is applied entirely or not at all: if exec_order, called
\* for a pending order at a reference price, fails because one of its
\* ledger adjustments is rejected, no balance entry (total or locked) of any
\* account differs from its value before the call
C35_FillAllOrNothing ==
    \A o \in PendingOrders : \A price \in PriceInputs :
        LET r == exec_order(Broker, o, price,
                            calc_commission(o, price, o.type_ = TYPE_LMT))
        IN  r.raised # "none" => r.asset_balances = asset_balances

(***************************************************************************)
(* Runs without cancels and without failed operations: the strategy's      *)
(* account submits orders and the backtester feeds trades, and only the    *)
(* calls that return normally are taken.                                   *)
(***************************************************************************)
AcceptedLmtOrder ==
    \E c \in ClientInputs, s \in OrderSymbols, q \in QtyInputs,
       side \in SideInputs, p \in PriceInputs :
        /\ orderID < MaxOrders
        /\ \E r \in {create_lmt_order(Broker, c, s, q, side, p)} :
               /\ r.raised = "none"
               /\ Commit(r, "create_lmt_order",
                     [clientID |-> c, symbol |-> s, quantity |-> q,
                      side |-> side, price |-> p])

AcceptedMktOrder ==
    \E c \in ClientInputs, s \in OrderSymbols, q \in QtyInputs,
       side \in SideInputs :
        /\ orderID < MaxOrders
        /\ \E r \in {create_mkt_order(Broker, c, s, q, side)} :
               /\ r.raised = "none"
               /\ Commit(r, "create_mkt_order",
                     [clientID |-> c, symbol |-> s, quantity |-> q,
                      side |-> side])

CompletedCheckOrders ==
    \E s \in TickSymbols :
        \E r \in {check_orders(Broker, s, "spot")} :
            /\ r.raised = "none"
            /\ Commit(r, "check_orders", s)

NextNoFailure ==
    \/ AcceptedLmtOrder
    \/ AcceptedMktOrder
    \/ UpdateTradeData
    \/ CompletedCheckOrders

SpecNoFailure == InitStrategy /\ [][NextNoFailure]_vars

\* the asset an order reserved at submission, and how much of it
ReservedAsset(o) ==
    IF o.side = SIDE_BID THEN split_symbol(o.symbol, ASSETS)[1]
    ELSE split_symbol(o.symbol, ASSETS)[2]

ReservedAmount(o) ==
    IF o.side = SIDE_BID
    THEN get_value(o, IF o.type_ = TYPE_MKT THEN o.locked_price ELSE None)
    ELSE Units(o.quantity)

RECURSIVE SumReserved(_)
SumReserved(os) ==
    IF os = {} THEN 0
    ELSE LET o == CHOOSE x \in os : TRUE
         IN  ReservedAmount(o) + SumReserved(os \ {o})

\* C36: in a run without cancels and without failed operations, for every
\* account and asset locked equals the sum of the amounts reserved at
\* submission by the account's orders that are still pending; locked is 0
\* for every asset of an account that has no pending order
C36_LockedIsSumOfPending ==
    \A c \in DOMAIN asset_balances : \A a \in DOMAIN asset_balances[c] :
        /\ asset_balances[c][a].locked =
               SumReserved({o \in PendingOrders :
                               o.clientID = c /\ ReservedAsset(o) = a})
        /\ {o \in PendingOrders : o.clientID = c} = {} =>
               asset_balances[c][a].locked = 0

\* one order has been filled while another is still pending with what it
\* reserved
C36_OneFilledOnePending ==
    /\ Len(executions) > 0
    /\ PendingOrders # {}
    /\ \E a \in DOMAIN asset_balances[0] : asset_balances[0][a].locked > 0
    /\ last.op = "check_orders"

\* C37: starting from a margin account with wallet >= 0, every successful
\* remove_from_wallet leaves wallet >= 0, for long and short positions and
\* any mark price: the wallet of the account is never negative
C37_WalletNeverNegative == account.wallet >= 0

\* C39: for a registered account and an asset of the exchange's asset list
\* that the account was never credited, the ledger treats the entry as
\* total = 0, locked = 0: get_assets_available returns 0, a positive change
\* of the total or of the locked amount is applied and a negative one is
\* refused with the ledger's insufficient-balance error; no call fails with
\* a lookup failure
C39_UncreditedAssetIsZero ==
    \A c \in DOMAIN asset_balances : \A a \in ASSETS \ DOMAIN asset_balances[c] :
        /\ get_assets_available(Broker, c, a).raised = "none"
        /\ get_assets_available(Broker, c, a).ret = 0
        /\ \A d \in DeltaInputs :
               /\ change_total_asset_balance(Broker, c, a, d).raised =
                      (IF d < 0 THEN "ValueError" ELSE "none")
               /\ change_locked_asset_balance(Broker, c, a, d).raised =
                      (IF d < 0 THEN "ValueError" ELSE "none")

=============================================================================
